---- MODULE Spec2Model ----
(***************************************************************************)
(* The scoring-rule engine of sourcecode/scoring/scoring_rules.py:         *)
(* apply_scoring_rules applies a list of ScoringRules in order to a table  *)
(* of per-note statistics and assembles the scored table.                  *)
(*                                                                         *)
(* Tables (pandas DataFrames) are sequences of rows, so that a repeated    *)
(* noteId and the row order are representable.  A missing string value is  *)
(* NaN; a nullable number is <<>> (missing) or <<v>>.  Real-valued         *)
(* intercepts and thresholds are scaled by 100 to integers.                *)
(***************************************************************************)
EXTENDS Integers, Sequences, FiniteSets, TLC

VARIABLES
  noteStats,        \* input table: one row per note (apply_scoring_rules arg)
  epochMillis,      \* c.epochMillis, the clock value of this scoring run
  catalog,          \* the ScoringRule objects the caller's rule list is drawn from
  rules,            \* the prefix of the rule list the for-loop has consumed
  ruleIDs,          \* set of RuleIDs of the rules that have run
  noteLabels,       \* accumulator: current status per note
  noteRules,        \* accumulator: (noteId, rule name) attribution rows
  noteColumns,      \* accumulator: additional columns contributed by rules
  calls,            \* history: ruleIDs whose score_notes has been called
  emitted,          \* history: what each score_notes call returned
  decidedByColumn,  \* whether the caller asked for a decidedBy column
  scoredNotes,      \* the returned table (<<>> until the run completes)
  pc,               \* "running", "done" (returned) or "failed" (raised)
  error,            \* which assertion raised, "" if none
  runs,             \* history: the earlier scoring runs whose output was fed back
  passed            \* history: noteStats as the caller passed it to this run

vars == <<noteStats, epochMillis, catalog, rules, ruleIDs, noteLabels, noteRules,
          noteColumns, calls, emitted, decidedByColumn, scoredNotes, pc, error, runs,
          passed>>

(***************************************************************************)
(* Bounds of the model.                                                    *)
(***************************************************************************)
MaxNotes == 2
MaxRules == 3
MaxRuns == 3

(***************************************************************************)
(* Status vocabulary and other tokens of scoring/constants.py.             *)
(***************************************************************************)
currentlyRatedHelpful == "CURRENTLY_RATED_HELPFUL"
currentlyRatedNotHelpful == "CURRENTLY_RATED_NOT_HELPFUL"
needsMoreRatings == "NEEDS_MORE_RATINGS"
firmReject == "FIRM_REJECT"
noteSaysTweetIsNotMisleadingKey == "NOT_MISLEADING"
noteSaysTweetIsMisleadingKey == "MISINFORMED_OR_POTENTIALLY_MISLEADING"
NaN == "NaN"
NoColumns == [columns |-> {}, rows |-> <<>>]
helpfulTagsTiebreakOrder == <<"helpfulClear", "helpfulGoodSources">>
notHelpfulTagsTiebreakOrder == <<"notHelpfulIncorrect", "notHelpfulOther">>
None == [columns |-> {"None"}, rows |-> <<>>]
notHelpfulHardToUnderstandKey == "notHelpfulHardToUnderstand"
notHelpfulTagsTSVOrder ==
  <<"notHelpfulOther", "notHelpfulIncorrect", notHelpfulHardToUnderstandKey,
    "notHelpfulArgumentativeOrBiased">>
adjustedSuffix == "_adjusted"
ratioSuffix == "_ratio"
activeFilterTagsKey == "activeFilterTags"

(***************************************************************************)
(* RuleID: the enum of RuleAndVersion(ruleName, ruleVersion, lockingEnabled)*)
(***************************************************************************)
RuleAndVersion(n, v, l) == [ruleName |-> n, ruleVersion |-> v, lockingEnabled |-> l]

RuleID ==
  [ INITIAL_NMR |-> RuleAndVersion("InitialNMR", "1.0", FALSE),
    GENERAL_CRH |-> RuleAndVersion("GeneralCRH", "1.0", FALSE),
    GENERAL_CRNH |-> RuleAndVersion("GeneralCRNH", "1.0", FALSE),
    UCB_CRNH |-> RuleAndVersion("UcbCRNH", "1.0", FALSE),
    TAG_OUTLIER |-> RuleAndVersion("TagFilter", "1.0", FALSE),
    ELEVATED_CRH |-> RuleAndVersion("CRHSuperThreshold", "1.0", FALSE),
    NM_CRNH |-> RuleAndVersion("NmCRNH", "1.0", FALSE),
    GENERAL_CRH_INERTIA |-> RuleAndVersion("GeneralCRHInertia", "1.0", FALSE),
    ELEVATED_CRH_INERTIA |-> RuleAndVersion("ElevatedCRHInertia", "1.0", FALSE),
    INCORRECT_OUTLIER |-> RuleAndVersion("FilterIncorrect", "1.0", FALSE),
    LOW_DILIGENCE |-> RuleAndVersion("FilterLowDiligence", "1.0", FALSE),
    LARGE_FACTOR |-> RuleAndVersion("FilterLargeFactor", "1.0", FALSE),
    LOW_INTERCEPT |-> RuleAndVersion("RejectLowIntercept", "1.0", FALSE),
    META_INITIAL_NMR |-> RuleAndVersion("MetaInitialNMR", "1.0", FALSE),
    EXPANSION_MODEL |-> RuleAndVersion("ExpansionModel", "1.1", FALSE),
    EXPANSION_PLUS_MODEL |-> RuleAndVersion("ExpansionPlusModel", "1.1", FALSE),
    CORE_MODEL |-> RuleAndVersion("CoreModel", "1.1", TRUE),
    COVERAGE_MODEL |-> RuleAndVersion("CoverageModel", "1.1", FALSE),
    GROUP_MODEL_1 |-> RuleAndVersion("GroupModel01", "1.1", TRUE),
    GROUP_MODEL_2 |-> RuleAndVersion("GroupModel02", "1.1", TRUE),
    GROUP_MODEL_3 |-> RuleAndVersion("GroupModel03", "1.1", TRUE),
    GROUP_MODEL_4 |-> RuleAndVersion("GroupModel04", "1.1", FALSE),
    GROUP_MODEL_5 |-> RuleAndVersion("GroupModel05", "1.1", FALSE),
    GROUP_MODEL_6 |-> RuleAndVersion("GroupModel06", "1.1", TRUE),
    GROUP_MODEL_7 |-> RuleAndVersion("GroupModel07", "1.1", FALSE),
    GROUP_MODEL_8 |-> RuleAndVersion("GroupModel08", "1.1", TRUE),
    GROUP_MODEL_9 |-> RuleAndVersion("GroupModel09", "1.1", TRUE),
    GROUP_MODEL_10 |-> RuleAndVersion("GroupModel10", "1.1", TRUE),
    GROUP_MODEL_11 |-> RuleAndVersion("GroupModel11", "1.1", TRUE),
    GROUP_MODEL_12 |-> RuleAndVersion("GroupModel12", "1.1", FALSE),
    GROUP_MODEL_13 |-> RuleAndVersion("GroupModel13", "1.1", TRUE),
    GROUP_MODEL_14 |-> RuleAndVersion("GroupModel14", "1.1", TRUE),
    TOPIC_MODEL_1 |-> RuleAndVersion("TopicModel01", "1.0", FALSE),
    TOPIC_MODEL_2 |-> RuleAndVersion("TopicModel02", "1.0", FALSE),
    TOPIC_MODEL_3 |-> RuleAndVersion("TopicModel03", "1.0", FALSE),
    MULTI_GROUP_MODEL_1 |-> RuleAndVersion("MultiGroupModel01", "1.0", FALSE),
    INSUFFICIENT_EXPLANATION |-> RuleAndVersion("InsufficientExplanation", "1.0", TRUE),
    SCORING_DRIFT_GUARD |-> RuleAndVersion("ScoringDriftGuard", "1.0", FALSE),
    NMR_DUE_TO_MIN_STABLE_CRH_TIME |-> RuleAndVersion("NmrDueToMinStableCrhTime", "1.0", FALSE) ]

\* get_name that formats the version alone
get_name_VersionOnly(ruleID) == "(v" \o RuleID[ruleID].ruleVersion \o ")"

\* RuleID.get_name: f"{ruleName} (v{ruleVersion})"
get_name(ruleID) == RuleID[ruleID].ruleName \o " (v" \o RuleID[ruleID].ruleVersion \o ")"

(***************************************************************************)
(* Table helpers (pandas operations used by the rules and the driver).     *)
(***************************************************************************)
\* set(df[c.noteIdKey])
NoteIdSet(df) == {df[i].noteId : i \in 1..Len(df)}

\* the rows of df whose index satisfies keep, in order (df[mask])
RECURSIVE Rows(_, _, _)
Rows(df, keep(_), i) ==
  IF i > Len(df) THEN <<>>
  ELSE (IF keep(i) THEN <<df[i]>> ELSE <<>>) \o Rows(df, keep, i + 1)

\* left.merge(right, on=noteId, how="inner"): one <<l, r>> pair per match,
\* in the order of the left rows, then of the right rows
RECURSIVE MatchesOf(_, _, _)
MatchesOf(l, right, j) ==
  IF j > Len(right) THEN <<>>
  ELSE (IF right[j].noteId = l.noteId THEN <<(<<l, right[j]>>)>> ELSE <<>>)
       \o MatchesOf(l, right, j + 1)

RECURSIVE InnerMerge(_, _, _)
InnerMerge(left, right, i) ==
  IF i > Len(left) THEN <<>>
  ELSE MatchesOf(left[i], right, 1) \o InnerMerge(left, right, i + 1)

\* df.drop_duplicates() leaves df unchanged (pd.testing.assert_frame_equal passes)
NoDuplicateRows(df) == \A i, j \in 1..Len(df) : df[i] = df[j] => i = j

\* a nullable number compared as pandas compares NaN: every comparison is False
isna(x) == x = <<>>
Gt(x, t) == ~isna(x) /\ x[1] > t
\* >= that a missing value passes
Ge_OrMissing(x, t) == isna(x) \/ x[1] >= t
\* >= that excludes equality
Ge_Strict(x, t) == ~isna(x) /\ x[1] > t
Ge(x, t) == ~isna(x) /\ x[1] >= t
Lt(x, t) == ~isna(x) /\ x[1] < t
Le(x, t) == ~isna(x) /\ x[1] <= t

\* the noteIds of a set in increasing order (groupby sorts its keys)
RECURSIVE Sorted(_)
Sorted(ids) ==
  IF ids = {} THEN <<>>
  ELSE LET least == CHOOSE n \in ids : \A m \in ids : n <= m
       IN <<least>> \o Sorted(ids \ {least})

\* ",".join(activeRules): the joined string as its sequence of tokens, the names
\* separated by "," tokens (no rule name contains a comma)
RECURSIVE join(_, _)
join(sep, names) ==
  IF Len(names) = 0 THEN <<>>
  ELSE IF Len(names) = 1 THEN <<names[1]>>
  ELSE <<names[1], sep>> \o join(sep, Tail(names))

\* one row of an additionalColumns table: noteId and a value <<v>> per column
ColumnRow(noteId, vals) == [noteId |-> noteId, vals |-> vals]

\* abs() that leaves the sign
abs_Signed(x) == x

\* Series.abs() on a nullable number: NaN stays NaN
abs(x) == IF isna(x) THEN x ELSE IF x[1] < 0 THEN <<0 - x[1]>> ELSE x

\* noteStatusUpdates: rows (noteId, status)
Update(noteId, status) == [noteId |-> noteId, status |-> status]
SetStatus(df, status) == [i \in 1..Len(df) |-> Update(df[i].noteId, status)]
Scored(updates, extras) == [ok |-> TRUE, updates |-> updates, extras |-> extras]
Raised == [ok |-> FALSE, updates |-> <<>>, extras |-> None]

(***************************************************************************)
(* The rules.  A rule object is a record: kind (its class), ruleID,        *)
(* dependencies and the constructor arguments of its class.  score_notes   *)
(* returns Scored(noteStatusUpdates, additionalColumns) or raises.         *)
(***************************************************************************)
\* check_dependencies when the rule's own RuleID is already counted as run
check_dependencies_CountingSelf(rule, priorRules) ==
  rule.dependencies \ (priorRules \cup {rule.ruleID}) = {}

\* ScoringRule.check_dependencies: assert not (self._dependencies - priorRules)
check_dependencies(rule, priorRules) == rule.dependencies \ priorRules = {}

\* the [[c.noteIdKey]] projection of the left rows of a merge
LeftNoteIds(pairs) == [i \in 1..Len(pairs) |-> [noteId |-> pairs[i][1].noteId]]

\* the candidate selection that keeps every labelled note
LabelledOtherThan_Everything(currentLabels, status) == currentLabels

\* currentLabels[currentLabels[statusColumn] != status][[c.noteIdKey]]
LabelledOtherThan(currentLabels, status) ==
  Rows(currentLabels, LAMBDA i : currentLabels[i].status # status, 1)

\* currentLabels[currentLabels[statusColumn] == status][[c.noteIdKey]]
LabelledAs(currentLabels, status) ==
  Rows(currentLabels, LAMBDA i : currentLabels[i].status = status, 1)

\* DefaultRule.score_notes that loses the last row of noteStats
DefaultRule_score_notes_DropLast(rule, stats, currentLabels) ==
  Scored(SetStatus(SubSeq(stats, 1, Len(stats) - 1), rule.status), None)

DefaultRule_score_notes(rule, stats, currentLabels) ==
  Scored(SetStatus(stats, rule.status), None)

\* the function argument of RuleFromFunction; the docstring's example,
\* lambda noteStats: noteStats[c.internalNoteInterceptKey] > threshold
function(rule, row) == Gt(row.internalNoteIntercept, rule.threshold)

\* RuleFromFunction.score_notes that requires the classification to be
\* "misleading" when onlyApplyToNotesThatSayTweetIsMisleading is set
RuleFromFunction_score_notes_MisleadingOnly(rule, stats, currentLabels) ==
  LET mask(i) ==
        /\ function(rule, stats[i])
        /\ rule.onlyApplyToNotesThatSayTweetIsMisleading
             => stats[i].classification = noteSaysTweetIsMisleadingKey
  IN Scored(SetStatus(Rows(stats, mask, 1), rule.status), None)

RuleFromFunction_score_notes(rule, stats, currentLabels) ==
  LET mask(i) ==
        /\ function(rule, stats[i])
        /\ rule.onlyApplyToNotesThatSayTweetIsMisleading
             => stats[i].classification # noteSaysTweetIsNotMisleadingKey
  IN Scored(SetStatus(Rows(stats, mask, 1), rule.status), None)

\* the test that counts FIRM_REJECT alone as a reject
Rejects_FirmOnly(row, col) == row[col] = firmReject

\* noteStats[col].isin({c.firmReject, c.currentlyRatedNotHelpful})
Rejects(row, col) == row[col] \in {firmReject, currentlyRatedNotHelpful}

\* the block that looks at the core model alone
crhBlocked_CoreOnly(row) == Rejects(row, "coreRatingStatus")

\* blocked from CRH by the core model, or by the expansion model when the
\* core model has no status
crhBlocked(row) ==
  \/ Rejects(row, "coreRatingStatus")
  \/ (row.coreRatingStatus = NaN /\ Rejects(row, "expansionRatingStatus"))

\* the statuses propagated without the rename
RenameFirmReject_Kept(status) == status

\* "Rename FIRM_REJECT to NEEDS_MORE_RATINGS"
RenameFirmReject(status) == IF status = firmReject THEN needsMoreRatings ELSE status

\* ApplyModelResult.score_notes that propagates sourceColumn as it is, without the
\* rename of FIRM_REJECT and the assertion after it
ApplyModelResult_score_notes_AsIs(rule, stats, currentLabels) ==
  LET src == rule.sourceColumn
      statusUpdateRows == Rows(stats, LAMBDA i : stats[i][src] # NaN, 1)
  IN Scored([i \in 1..Len(statusUpdateRows) |->
               Update(statusUpdateRows[i].noteId, statusUpdateRows[i][src])], None)

ApplyModelResult_score_notes(rule, stats, currentLabels) ==
  LET src == rule.sourceColumn
      pairs == rule.filterColumnPairs
      unblocked ==
        IF rule.checkFirmReject
          THEN Rows(stats, LAMBDA i : ~(crhBlocked(stats[i])
                                        /\ stats[i][src] = currentlyRatedHelpful), 1)
          ELSE stats
      filtered ==
        Rows(unblocked,
             LAMBDA i : \A k \in 1..Len(pairs) : unblocked[i][pairs[k][1]] = pairs[k][2], 1)
      statusUpdateRows == Rows(filtered, LAMBDA i : filtered[i][src] # NaN, 1)
      noteStatusUpdates ==
        [i \in 1..Len(statusUpdateRows) |->
           Update(statusUpdateRows[i].noteId, RenameFirmReject(statusUpdateRows[i][src]))]
  IN IF \A i \in 1..Len(noteStatusUpdates) :
          noteStatusUpdates[i].status
            \in {currentlyRatedHelpful, currentlyRatedNotHelpful, needsMoreRatings}
       THEN Scored(noteStatusUpdates, None)
       ELSE Raised

\* FilterLowDiligence.score_notes without its assert_frame_equal on duplicates
FilterLowDiligence_score_notes_Unchecked(rule, stats, currentLabels) ==
  LET candidateNotes == LabelledOtherThan(currentLabels, currentlyRatedNotHelpful)
      merged == InnerMerge(stats, candidateNotes, 1)
      impacted ==
        LeftNoteIds(Rows(merged,
          LAMBDA i : Gt(merged[i][1].lowDiligenceNoteIntercept, rule.interceptThreshold), 1))
  IN Scored(SetStatus(impacted, rule.status), None)

FilterLowDiligence_score_notes(rule, stats, currentLabels) ==
  LET candidateNotes == LabelledOtherThan(currentLabels, currentlyRatedNotHelpful)
      merged == InnerMerge(stats, candidateNotes, 1)
      impacted ==
        LeftNoteIds(Rows(merged,
          LAMBDA i : Gt(merged[i][1].lowDiligenceNoteIntercept, rule.interceptThreshold), 1))
  IN IF NoDuplicateRows(impacted)
       THEN Scored(SetStatus(impacted, rule.status), None)
       ELSE Raised

\* the (noteId, tag) rows of one tag, with the two comparisons not strict
TagFilteredNotes_AtLeast(rule, merged, tag) ==
  LET adjustedColumn == tag \o adjustedSuffix
      adjustedRatioColumn == adjustedColumn \o ratioSuffix
      hit == Rows(merged,
               LAMBDA i :
                 /\ Ge(merged[i][1][adjustedColumn], rule.minAdjustedTotal)
                 /\ Ge(merged[i][1][adjustedRatioColumn],
                       rule.tagFilterThresholds[adjustedRatioColumn]), 1)
  IN [i \in 1..Len(hit) |-> [noteId |-> hit[i][1].noteId, activeFilterTags |-> tag]]

\* the (noteId, tag) rows of one tag: the notes whose adjusted total exceeds
\* minAdjustedTotal and whose adjusted ratio exceeds the tag's threshold
TagFilteredNotes(rule, merged, tag) ==
  LET adjustedColumn == tag \o adjustedSuffix
      adjustedRatioColumn == adjustedColumn \o ratioSuffix
      hit == Rows(merged,
               LAMBDA i :
                 /\ Gt(merged[i][1][adjustedColumn], rule.minAdjustedTotal)
                 /\ Gt(merged[i][1][adjustedRatioColumn],
                       rule.tagFilterThresholds[adjustedRatioColumn]), 1)
  IN [i \in 1..Len(hit) |-> [noteId |-> hit[i][1].noteId, activeFilterTags |-> tag]]

\* the loop over c.notHelpfulTagsTSVOrder from its p-th tag on: the rows of each
\* tag but notHelpfulHardToUnderstand, concatenated
RECURSIVE ImpactedNotes(_, _, _)
ImpactedNotes(rule, merged, p) ==
  IF p > Len(notHelpfulTagsTSVOrder) THEN <<>>
  ELSE (IF notHelpfulTagsTSVOrder[p] = notHelpfulHardToUnderstandKey THEN <<>>
        ELSE TagFilteredNotes(rule, merged, notHelpfulTagsTSVOrder[p]))
       \o ImpactedNotes(rule, merged, p + 1)

\* the tags of note n in impactedNotes, in row order (groupby.aggregate(list))
TagList(impactedNotes, n) ==
  LET mine == Rows(impactedNotes, LAMBDA i : impactedNotes[i].noteId = n, 1)
  IN [i \in 1..Len(mine) |-> mine[i].activeFilterTags]

FilterTagOutliers_score_notes(rule, stats, currentLabels) ==
  LET candidateNotes == LabelledOtherThan(currentLabels, currentlyRatedNotHelpful)
      merged == InnerMerge(stats, candidateNotes, 1)
      impactedNotes == ImpactedNotes(rule, merged, 1)
      ids == Sorted(NoteIdSet(impactedNotes))
  IN Scored([k \in 1..Len(ids) |-> Update(ids[k], rule.status)],
            [columns |-> {activeFilterTagsKey},
             rows |-> [k \in 1..Len(ids) |->
                         ColumnRow(ids[k],
                                   (activeFilterTagsKey
                                      :> <<join(",", TagList(impactedNotes, ids[k]))>>))]])

FilterIncorrect_score_notes(rule, stats, currentLabels) ==
  LET candidateNotes == LabelledOtherThan(currentLabels, currentlyRatedNotHelpful)
      merged == InnerMerge(stats, candidateNotes, 1)
      impacted ==
        LeftNoteIds(Rows(merged,
          LAMBDA i : /\ Ge(merged[i][1].notHelpfulIncorrect_interval, rule.tagThreshold)
                     /\ Ge(merged[i][1].num_voters_interval, rule.voteThreshold)
                     /\ Ge(merged[i][1].tf_idf_incorrect_interval, rule.weightedTotalVotes), 1))
  IN IF NoDuplicateRows(impacted)
       THEN Scored(SetStatus(impacted, rule.status), None)
       ELSE Raised

\* blocked from CRH by the core model, or by the expansion model when the core
\* model has no status for the note
isBlocked(row) ==
  \/ Rejects(row, "coreRatingStatus")
  \/ (row.coreRatingStatus = NaN /\ Rejects(row, "expansionRatingStatus"))

\* the "core" and "expansion" columns where the intercept is present: above
\* minSafeguardThreshold and, when the CRH threshold is not None, below it
InRange(intercept, minSafeguardThreshold, crhThreshold) ==
  /\ Gt(intercept, minSafeguardThreshold)
  /\ (crhThreshold = <<>> \/ Lt(intercept, crhThreshold[1]))

\* the value of the expansion column even when the core column is valid
get_value_Either(rule, row) ==
  \/ /\ ~isna(row.coreNoteIntercept)
     /\ InRange(row.coreNoteIntercept, rule.minSafeguardThreshold, rule.coreCrhThreshold)
  \/ /\ ~isna(row.expansionNoteIntercept)
     /\ InRange(row.expansionNoteIntercept, rule.minSafeguardThreshold,
                rule.expansionCrhThreshold)

\* _get_value over the columns ["core", "expansion"]: the value of the first
\* column that is not NaN, False when both are
get_value(rule, row) ==
  IF ~isna(row.coreNoteIntercept)
    THEN InRange(row.coreNoteIntercept, rule.minSafeguardThreshold, rule.coreCrhThreshold)
  ELSE IF ~isna(row.expansionNoteIntercept)
    THEN InRange(row.expansionNoteIntercept, rule.minSafeguardThreshold,
                 rule.expansionCrhThreshold)
  ELSE FALSE

\* ApplyGroupModelResult.score_notes that takes the candidates from every label
ApplyGroupModelResult_score_notes_AnyLabel(rule, stats, currentLabels) ==
  LET unblocked == Rows(stats, LAMBDA i : ~isBlocked(stats[i]), 1)
      probationaryCRHNotes ==
        Rows(unblocked,
             LAMBDA i : /\ unblocked[i].groupRatingStatus = currentlyRatedHelpful
                        /\ unblocked[i].modelingGroup = <<rule.groupNumber>>, 1)
      noteStatusUpdates == LeftNoteIds(InnerMerge(probationaryCRHNotes, currentLabels, 1))
      actionableNotes == Rows(unblocked, LAMBDA i : get_value(rule, unblocked[i]), 1)
  IN Scored(SetStatus(LeftNoteIds(InnerMerge(noteStatusUpdates, actionableNotes, 1)),
                      currentlyRatedHelpful), None)

ApplyGroupModelResult_score_notes(rule, stats, currentLabels) ==
  LET unblocked == Rows(stats, LAMBDA i : ~isBlocked(stats[i]), 1)
      probationaryCRHNotes ==
        Rows(unblocked,
             LAMBDA i : /\ unblocked[i].groupRatingStatus = currentlyRatedHelpful
                        /\ unblocked[i].modelingGroup = <<rule.groupNumber>>, 1)
      currentNMRNotes == LabelledAs(currentLabels, needsMoreRatings)
      noteStatusUpdates == LeftNoteIds(InnerMerge(probationaryCRHNotes, currentNMRNotes, 1))
      actionableNotes == Rows(unblocked, LAMBDA i : get_value(rule, unblocked[i]), 1)
  IN Scored(SetStatus(LeftNoteIds(InnerMerge(noteStatusUpdates, actionableNotes, 1)),
                      currentlyRatedHelpful), None)

NMtoCRNH_score_notes(rule, stats, currentLabels) ==
  LET mask(i) ==
        /\ Lt(stats[i].internalNoteIntercept, rule.crnhThresholdNMIntercept)
        /\ stats[i].classification = noteSaysTweetIsNotMisleadingKey
  IN Scored(SetStatus(Rows(stats, mask, 1), rule.status), None)

FilterLargeFactor_score_notes(rule, stats, currentLabels) ==
  LET candidateNotes == LabelledAs(currentLabels, currentlyRatedHelpful)
      merged == InnerMerge(stats, candidateNotes, 1)
      impacted ==
        LeftNoteIds(Rows(merged,
          LAMBDA i : Gt(abs(merged[i][1].internalNoteFactor1), rule.factorThreshold), 1))
  IN IF NoDuplicateRows(impacted)
       THEN Scored(SetStatus(impacted, rule.status), None)
       ELSE Raised

\* ApplyTopicModelResult.score_notes that does not ask for a confident topic
ApplyTopicModelResult_score_notes_Unconfident(rule, stats, currentLabels) ==
  LET currentCRHNotes == LabelledAs(currentLabels, currentlyRatedHelpful)
      topicLowNotes ==
        Rows(stats,
             LAMBDA i : /\ \/ Lt(stats[i].topicNoteIntercept, rule.topicNMRInterceptThreshold)
                           \/ Gt(abs(stats[i].topicNoteFactor1), rule.topicNMRFactorThreshold)
                        /\ stats[i].noteTopic = rule.topic, 1)
  IN Scored(SetStatus(LeftNoteIds(InnerMerge(currentCRHNotes, topicLowNotes, 1)),
                      needsMoreRatings), None)

ApplyTopicModelResult_score_notes(rule, stats, currentLabels) ==
  LET currentCRHNotes == LabelledAs(currentLabels, currentlyRatedHelpful)
      topicLowNotes ==
        Rows(stats,
             LAMBDA i : /\ \/ Lt(stats[i].topicNoteIntercept, rule.topicNMRInterceptThreshold)
                           \/ Gt(abs(stats[i].topicNoteFactor1), rule.topicNMRFactorThreshold)
                        /\ stats[i].topicNoteConfident
                        /\ stats[i].noteTopic = rule.topic, 1)
  IN Scored(SetStatus(LeftNoteIds(InnerMerge(currentCRHNotes, topicLowNotes, 1)),
                      needsMoreRatings), None)

RejectLowIntercept_score_notes(rule, stats, currentLabels) ==
  LET candidateNotes == LabelledOtherThan(currentLabels, currentlyRatedNotHelpful)
      merged == InnerMerge(stats, candidateNotes, 1)
      impacted ==
        LeftNoteIds(Rows(merged,
          LAMBDA i : Lt(merged[i][1].internalNoteIntercept, rule.firmRejectThreshold), 1))
  IN Scored(SetStatus(impacted, rule.status), None)

\* AddCRHInertia.score_notes that considers every labelled note except those the
\* rules before it firmly rejected
AddCRHInertia_score_notes_SkipFirmReject(rule, stats, currentLabels) ==
  LET eligible ==
        Rows(stats, LAMBDA i : /\ Ge(stats[i].numRatings, rule.minRatingsNeeded)
                               /\ Ge(stats[i].internalNoteIntercept, rule.threshold)
                               /\ stats[i].currentLabel = currentlyRatedHelpful
                               /\ stats[i].classification # noteSaysTweetIsNotMisleadingKey, 1)
      candidates ==
        Rows(currentLabels,
             LAMBDA i : currentLabels[i].status \notin {currentlyRatedHelpful, firmReject}, 1)
      noteIds == LeftNoteIds(InnerMerge(candidates, eligible, 1))
      noteIntercepts == InnerMerge(stats, noteIds, 1)
  IN IF \A i \in 1..Len(noteIntercepts) :
          ~Gt(noteIntercepts[i][1].internalNoteIntercept, rule.expectedMax)
       THEN Scored(SetStatus(noteIds, rule.status), None)
       ELSE Raised

\* AddCRHInertia.score_notes: the notes not CRH now that were CRH in the last run
\* and score at least the threshold; raises when one scores above expectedMax
AddCRHInertia_score_notes(rule, stats, currentLabels) ==
  LET eligible ==
        Rows(stats, LAMBDA i : /\ Ge(stats[i].numRatings, rule.minRatingsNeeded)
                               /\ Ge(stats[i].internalNoteIntercept, rule.threshold)
                               /\ stats[i].currentLabel = currentlyRatedHelpful
                               /\ stats[i].classification # noteSaysTweetIsNotMisleadingKey, 1)
      noteIds ==
        LeftNoteIds(InnerMerge(LabelledOtherThan(currentLabels, currentlyRatedHelpful),
                               eligible, 1))
      noteIntercepts == InnerMerge(stats, noteIds, 1)
  IN IF \A i \in 1..Len(noteIntercepts) :
          ~Gt(noteIntercepts[i][1].internalNoteIntercept, rule.expectedMax)
       THEN Scored(SetStatus(noteIds, rule.status), None)
       ELSE Raised

updatedTimestampMillisOfNmrDueToMinStableCrhTimeKey ==
  "updatedTimestampMillisOfNmrDueToMinStableCrhTime"
unlockedRatingStatusKey == "unlockedRatingStatus"

\* the timestamp test with >= 0 instead of > 0
TimestampSet_IncludingZero(t) == ~isna(t) /\ t[1] >= 0

\* ~isna(timestamp) & (timestamp > 0)
TimestampSet(t) == ~isna(t) /\ t[1] > 0

\* the outcome with maturity tested by > instead of >=
StableCrhOutcome_StrictlyLater(rule, status, t, now) ==
  LET threshold == rule.requiredStableCrhMinutesThreshold * 60 * 1000
      crh == status = currentlyRatedHelpful
  IN CASE crh /\ (isna(t) \/ t[1] <= 0) ->
            [newStatus |-> needsMoreRatings, updated |-> <<now>>]
       [] crh /\ TimestampSet(t) /\ now - t[1] > threshold ->
            [newStatus |-> currentlyRatedHelpful, updated |-> <<-1>>]
       [] crh /\ TimestampSet(t) /\ now - t[1] <= threshold ->
            [newStatus |-> needsMoreRatings, updated |-> t]
       [] ~crh /\ TimestampSet(t) ->
            [newStatus |-> NaN, updated |-> <<-1>>]
       [] OTHER -> [newStatus |-> NaN, updated |-> t]

\* the four .loc assignments (1)-(A), (1)-(B)-(a), (1)-(B)-(b), (2): the new status
\* (NaN when none is assigned) and the updated timestamp of one selected row
StableCrhOutcome(rule, status, t, now) ==
  LET threshold == rule.requiredStableCrhMinutesThreshold * 60 * 1000
      crh == status = currentlyRatedHelpful
  IN CASE crh /\ (isna(t) \/ t[1] <= 0) ->
            [newStatus |-> needsMoreRatings, updated |-> <<now>>]
       [] crh /\ TimestampSet(t) /\ now - t[1] >= threshold ->
            [newStatus |-> currentlyRatedHelpful, updated |-> <<-1>>]
       [] crh /\ TimestampSet(t) /\ now - t[1] < threshold ->
            [newStatus |-> needsMoreRatings, updated |-> t]
       [] ~crh /\ TimestampSet(t) ->
            [newStatus |-> NaN, updated |-> <<-1>>]
       [] OTHER -> [newStatus |-> NaN, updated |-> t]

\* the rule selecting only the notes that are CRH now, so that a timestamp of a
\* note that is no longer CRH is never reset
NmrDueToMinStableCrhTime_score_notes_CrhOnly(rule, stats, currentLabels) ==
  LET notCrhBefore ==
        Rows(stats, LAMBDA i : stats[i].currentLabel # currentlyRatedHelpful, 1)
      merged == InnerMerge(notCrhBefore, currentLabels, 1)
      T(p) == p[1].timestampMillisOfNmrDueToMinStableCrhTime
      selected ==
        Rows(merged, LAMBDA i : merged[i][2].status = currentlyRatedHelpful, 1)
      noteStatusUpdates ==
        [i \in 1..Len(selected) |->
           [noteId |-> selected[i][1].noteId,
            timestamp |-> T(selected[i]),
            status |-> selected[i][2].status]]
      outcome(i) == StableCrhOutcome(rule, noteStatusUpdates[i].status,
                                     noteStatusUpdates[i].timestamp, epochMillis)
      withStatusChange ==
        Rows(noteStatusUpdates,
             LAMBDA i : /\ noteStatusUpdates[i].status = currentlyRatedHelpful
                        /\ outcome(i).newStatus = needsMoreRatings, 1)
      key == updatedTimestampMillisOfNmrDueToMinStableCrhTimeKey
  IN IF NoDuplicateRows(noteStatusUpdates)
       THEN Scored(SetStatus(withStatusChange, needsMoreRatings),
                   [columns |-> {key},
                    rows |-> [i \in 1..Len(noteStatusUpdates) |->
                                ColumnRow(noteStatusUpdates[i].noteId,
                                          (key :> outcome(i).updated))]])
       ELSE Raised

NmrDueToMinStableCrhTime_score_notes(rule, stats, currentLabels) ==
  LET notCrhBefore ==
        Rows(stats, LAMBDA i : stats[i].currentLabel # currentlyRatedHelpful, 1)
      merged == InnerMerge(notCrhBefore, currentLabels, 1)
      T(p) == p[1].timestampMillisOfNmrDueToMinStableCrhTime
      selected ==
        Rows(merged, LAMBDA i : \/ merged[i][2].status = currentlyRatedHelpful
                                \/ TimestampSet(T(merged[i])), 1)
      noteStatusUpdates ==
        [i \in 1..Len(selected) |->
           [noteId |-> selected[i][1].noteId,
            timestamp |-> T(selected[i]),
            status |-> selected[i][2].status]]
      outcome(i) == StableCrhOutcome(rule, noteStatusUpdates[i].status,
                                     noteStatusUpdates[i].timestamp, epochMillis)
      withStatusChange ==
        Rows(noteStatusUpdates,
             LAMBDA i : /\ noteStatusUpdates[i].status = currentlyRatedHelpful
                        /\ outcome(i).newStatus = needsMoreRatings, 1)
      key == updatedTimestampMillisOfNmrDueToMinStableCrhTimeKey
  IN IF NoDuplicateRows(noteStatusUpdates)
       THEN Scored(SetStatus(withStatusChange, needsMoreRatings),
                   [columns |-> {key},
                    rows |-> [i \in 1..Len(noteStatusUpdates) |->
                                ColumnRow(noteStatusUpdates[i].noteId,
                                          (key :> outcome(i).updated))]])
       ELSE Raised

\* the rule without the filter on diverging statuses: every note with a locked
\* status is overwritten
ScoringDriftGuard_score_notes_Unfiltered(rule, stats, currentLabels) ==
  LET locked == rule.lockedStatus
      lockedStatusDF == Rows(locked, LAMBDA i : locked[i].lockedStatus # NaN, 1)
      mergedLabels == InnerMerge(lockedStatusDF, currentLabels, 1)
  IN Scored([i \in 1..Len(mergedLabels) |->
               Update(mergedLabels[i][1].noteId, mergedLabels[i][1].lockedStatus)],
            [columns |-> {unlockedRatingStatusKey},
             rows |-> [i \in 1..Len(mergedLabels) |->
                         ColumnRow(mergedLabels[i][1].noteId,
                                   (unlockedRatingStatusKey :> <<mergedLabels[i][2].status>>))]])

\* the rule with a left merge: a note with a locked status and no current label
\* is given the locked status
ScoringDriftGuard_score_notes_LeftMerge(rule, stats, currentLabels) ==
  LET locked == rule.lockedStatus
      lockedStatusDF == Rows(locked, LAMBDA i : locked[i].lockedStatus # NaN, 1)
      current(i) ==
        IF lockedStatusDF[i].noteId \in NoteIdSet(currentLabels)
          THEN currentLabels[CHOOSE j \in 1..Len(currentLabels) :
                           currentLabels[j].noteId = lockedStatusDF[i].noteId].status
          ELSE NaN
      mergedLabels ==
        Rows(lockedStatusDF, LAMBDA i : lockedStatusDF[i].lockedStatus # current(i), 1)
  IN Scored([i \in 1..Len(mergedLabels) |->
               Update(mergedLabels[i].noteId, mergedLabels[i].lockedStatus)],
            [columns |-> {unlockedRatingStatusKey},
             rows |-> [i \in 1..Len(mergedLabels) |->
                         ColumnRow(mergedLabels[i].noteId,
                                   (unlockedRatingStatusKey :> <<NaN>>))]])

ScoringDriftGuard_score_notes(rule, stats, currentLabels) ==
  LET locked == rule.lockedStatus
      lockedStatusDF == Rows(locked, LAMBDA i : locked[i].lockedStatus # NaN, 1)
      allMerged == InnerMerge(lockedStatusDF, currentLabels, 1)
      mergedLabels ==
        Rows(allMerged, LAMBDA i : allMerged[i][1].lockedStatus # allMerged[i][2].status, 1)
  IN Scored([i \in 1..Len(mergedLabels) |->
               Update(mergedLabels[i][1].noteId, mergedLabels[i][1].lockedStatus)],
            [columns |-> {unlockedRatingStatusKey},
             rows |-> [i \in 1..Len(mergedLabels) |->
                         ColumnRow(mergedLabels[i][1].noteId,
                                   (unlockedRatingStatusKey :> <<mergedLabels[i][2].status>>))]])

\* the tags of tagsConsidered that the row has at least minRatingsToGetTag
\* ratings of, as positions in tagsConsidered
TagsGot(row, minRatingsToGetTag, tagsConsidered) ==
  {p \in 1..Len(tagsConsidered) : row[tagsConsidered[p]] >= minRatingsToGetTag}

\* the position in got with the most ratings, the earlier one in tagsConsidered
\* when two have as many
TopTag(row, tagsConsidered, got) ==
  CHOOSE p \in got :
    \A q \in got : \/ row[tagsConsidered[p]] > row[tagsConsidered[q]]
                   \/ (row[tagsConsidered[p]] = row[tagsConsidered[q]] /\ p <= q)

firstTagOf(row, minRatingsToGetTag, tagsConsidered) ==
  IF TagsGot(row, minRatingsToGetTag, tagsConsidered) = {} THEN NaN
  ELSE tagsConsidered[TopTag(row, tagsConsidered,
                             TagsGot(row, minRatingsToGetTag, tagsConsidered))]

secondTagOf(row, minRatingsToGetTag, tagsConsidered) ==
  IF Cardinality(TagsGot(row, minRatingsToGetTag, tagsConsidered)) < 2 THEN NaN
  ELSE tagsConsidered[
         TopTag(row, tagsConsidered,
                TagsGot(row, minRatingsToGetTag, tagsConsidered)
                  \ {TopTag(row, tagsConsidered,
                            TagsGot(row, minRatingsToGetTag, tagsConsidered))})]

\* explanation_tags.get_top_two_tags_for_note: per note, up to two tags with at
\* least minRatingsToGetTag ratings, most rated first, ties in tie-break order
get_top_two_tags_for_note(df, minRatingsToGetTag, minTagsNeededForStatus, tagsConsidered) ==
  [i \in 1..Len(df) |->
     [noteId |-> df[i].noteId,
      firstTag |-> firstTagOf(df[i], minRatingsToGetTag, tagsConsidered),
      secondTag |-> secondTagOf(df[i], minRatingsToGetTag, tagsConsidered)]]

\* noteStats.loc[topTags[noteId], firstTag / secondTag] = topTags[...], on the
\* table indexed by noteId (noteIds not repeated)
SetTopTags(stats, topTags) ==
  [i \in 1..Len(stats) |->
     IF stats[i].noteId \in NoteIdSet(topTags)
       THEN [stats[i] EXCEPT
               !.firstTag = topTags[CHOOSE j \in 1..Len(topTags) :
                                      topTags[j].noteId = stats[i].noteId].firstTag,
               !.secondTag = topTags[CHOOSE j \in 1..Len(topTags) :
                                       topTags[j].noteId = stats[i].noteId].secondTag]
       ELSE stats[i]]

\* noteStats.loc[noteStats[noteId].isin(currentLabels.loc[status == s, noteId]), :]
RowsLabelled(stats, currentLabels, status) ==
  Rows(stats, LAMBDA i : stats[i].noteId \in NoteIdSet(LabelledAs(currentLabels, status)), 1)

\* "Set Top CRH Tags": minTagsNeededForStatus and minRatingsToGetTag are passed in
\* this order
TopCrhTagsSet(rule, stats, currentLabels) ==
  SetTopTags(stats,
             get_top_two_tags_for_note(
               RowsLabelled(stats, currentLabels, currentlyRatedHelpful),
               rule.minTagsNeededForStatus, rule.minRatingsToGetTag,
               helpfulTagsTiebreakOrder))

\* score_notes working on a copy of noteStats: the caller's table stays as it was
InsufficientExplanation_noteStats_OnCopy(rule, stats, currentLabels) == stats

\* noteStats as InsufficientExplanation.score_notes leaves it ("Sets Top Tags
\* inplace on noteStats"), with tagsConsidered None: the top CRH tags, then the
\* top CRNH tags
InsufficientExplanation_noteStats(rule, stats, currentLabels) ==
  SetTopTags(TopCrhTagsSet(rule, stats, currentLabels),
             get_top_two_tags_for_note(
               RowsLabelled(TopCrhTagsSet(rule, stats, currentLabels), currentLabels,
                            currentlyRatedNotHelpful),
               rule.minRatingsToGetTag, rule.minTagsNeededForStatus,
               notHelpfulTagsTiebreakOrder))

\* the count of top tags that looks at firstTag alone
TagsSet_FirstOnly(row) == IF row.firstTag = NaN THEN 0 ELSE 1

\* (~crStats[[firstTag, secondTag]].isna()).sum(axis=1)
TagsSet(row) ==
  (IF row.firstTag = NaN THEN 0 ELSE 1) + (IF row.secondTag = NaN THEN 0 ELSE 1)

\* the post-processing on the table with the top tags set: the CRH / CRNH notes
\* with fewer than minTagsNeededForStatus top tags
InsufficientlyExplained(rule, tagged, currentLabels) ==
  LeftNoteIds(
    InnerMerge(
      Rows(tagged, LAMBDA i : TagsSet(tagged[i]) < rule.minTagsNeededForStatus, 1),
      Rows(currentLabels,
           LAMBDA i : currentLabels[i].status
                        \in {currentlyRatedHelpful, currentlyRatedNotHelpful}, 1), 1))

InsufficientExplanation_score_notes(rule, stats, currentLabels) ==
  IF NoDuplicateRows(InsufficientlyExplained(
                       rule, InsufficientExplanation_noteStats(rule, stats, currentLabels),
                       currentLabels))
    THEN Scored(SetStatus(InsufficientlyExplained(
                            rule, InsufficientExplanation_noteStats(rule, stats, currentLabels),
                            currentLabels), rule.status), None)
    ELSE Raised

\* ScoringRule.score_notes is abstract: a subclass outside this file returns any
\* pair of tables; here one that returns the pair it was constructed with
ScoringRule_score_notes(rule, stats, currentLabels) ==
  Scored(rule.noteStatusUpdates, rule.additionalColumns)

\* rule.score_notes(noteStats, noteLabels, statusColumn), by the rule's class
score_notes(rule, stats, currentLabels) ==
  CASE rule.kind = "DefaultRule" -> DefaultRule_score_notes(rule, stats, currentLabels)
    [] rule.kind = "RuleFromFunction" -> RuleFromFunction_score_notes(rule, stats, currentLabels)
    [] rule.kind = "ApplyModelResult" -> ApplyModelResult_score_notes(rule, stats, currentLabels)
    [] rule.kind = "FilterLowDiligence" ->
         FilterLowDiligence_score_notes(rule, stats, currentLabels)
    [] rule.kind = "RejectLowIntercept" ->
         RejectLowIntercept_score_notes(rule, stats, currentLabels)
    [] rule.kind = "ApplyGroupModelResult" ->
         ApplyGroupModelResult_score_notes(rule, stats, currentLabels)
    [] rule.kind = "NMtoCRNH" -> NMtoCRNH_score_notes(rule, stats, currentLabels)
    [] rule.kind = "FilterLargeFactor" ->
         FilterLargeFactor_score_notes(rule, stats, currentLabels)
    [] rule.kind = "ApplyTopicModelResult" ->
         ApplyTopicModelResult_score_notes(rule, stats, currentLabels)
    [] rule.kind = "FilterTagOutliers" ->
         FilterTagOutliers_score_notes(rule, stats, currentLabels)
    [] rule.kind = "FilterIncorrect" ->
         FilterIncorrect_score_notes(rule, stats, currentLabels)
    [] rule.kind = "NmrDueToMinStableCrhTime" ->
         NmrDueToMinStableCrhTime_score_notes(rule, stats, currentLabels)
    [] rule.kind = "ScoringDriftGuard" ->
         ScoringDriftGuard_score_notes(rule, stats, currentLabels)
    [] rule.kind = "AddCRHInertia" -> AddCRHInertia_score_notes(rule, stats, currentLabels)
    [] rule.kind = "ScoringRule" -> ScoringRule_score_notes(rule, stats, currentLabels)
    [] rule.kind = "InsufficientExplanation" ->
         InsufficientExplanation_score_notes(rule, stats, currentLabels)

(***************************************************************************)
(* apply_scoring_rules.  The driver's local state is a record st of the    *)
(* fields ruleIDs, noteLabels, noteRules, noteColumns, calls, emitted, pc, *)
(* error; LoopBody is one iteration of "for rule in rules".                *)
(***************************************************************************)
InitialState ==
  [ruleIDs |-> {}, noteLabels |-> <<>>, noteRules |-> <<>>, noteColumns |-> NoColumns,
   calls |-> <<>>, emitted |-> <<>>, pc |-> "running", error |-> ""]

Raise(st, what) == [st EXCEPT !.pc = "failed", !.error = what]

\* the concat without groupby(noteId).tail(1): old and new rows are all kept
UpdateLabels_Concat(labels, noteStatusUpdates) == labels \o noteStatusUpdates

\* the concat followed by head(1) instead of tail(1): the first row of every noteId
UpdateLabels_Head(labels, noteStatusUpdates) ==
  LET all == labels \o noteStatusUpdates
  IN Rows(all, LAMBDA i : \A j \in 1..(i - 1) : all[j].noteId # all[i].noteId, 1)

\* pd.concat([noteLabels, noteStatusUpdates]).groupby(c.noteIdKey).tail(1):
\* the last row of every noteId, in the original row order
UpdateLabels(labels, noteStatusUpdates) ==
  LET all == labels \o noteStatusUpdates
  IN Rows(all, LAMBDA i : \A j \in (i + 1)..Len(all) : all[j].noteId # all[i].noteId, 1)

\* the concat with its operands exchanged: the new rows before the old ones
AppendRules_Prepending(attribution, noteStatusUpdates, name) ==
  [i \in 1..Len(noteStatusUpdates) |->
     [noteId |-> noteStatusUpdates[i].noteId, rule |-> name]] \o attribution

\* pd.concat([noteRules, DataFrame({noteId: noteStatusUpdates[noteId], ruleColumn: name})])
AppendRules(attribution, noteStatusUpdates, name) ==
  attribution \o [i \in 1..Len(noteStatusUpdates) |->
                    [noteId |-> noteStatusUpdates[i].noteId, rule |-> name]]

Missing(columns) == [col \in columns |-> <<>>]

\* the rows of an outer merge that stem from left row l
RECURSIVE LeftJoined(_, _, _)
LeftJoined(l, right, j) ==
  IF j > Len(right.rows) THEN <<>>
  ELSE (IF right.rows[j].noteId = l.noteId
          THEN <<ColumnRow(l.noteId, l.vals @@ right.rows[j].vals)>> ELSE <<>>)
       \o LeftJoined(l, right, j + 1)

RECURSIVE LeftRows(_, _, _)
LeftRows(left, right, i) ==
  IF i > Len(left.rows) THEN <<>>
  ELSE (IF left.rows[i].noteId \in NoteIdSet(right.rows)
          THEN LeftJoined(left.rows[i], right, 1)
          ELSE <<ColumnRow(left.rows[i].noteId, left.rows[i].vals @@ Missing(right.columns))>>)
       \o LeftRows(left, right, i + 1)

\* noteColumns.merge(additionalColumns, on=c.noteIdKey, how="outer"); the order of
\* the rows of the result plays no part in the scored table
MergeColumns(left, right) ==
  LET rightOnly == Rows(right.rows, LAMBDA j : right.rows[j].noteId \notin NoteIdSet(left.rows), 1)
  IN [columns |-> left.columns \cup right.columns,
      rows |-> LeftRows(left, right, 1)
               \o [j \in 1..Len(rightOnly) |->
                     ColumnRow(rightOnly[j].noteId, Missing(left.columns) @@ rightOnly[j].vals)]]

\* the check without the exemption of NMR_DUE_TO_MIN_STABLE_CRH_TIME
ColumnsMatchUpdates_NoExemption(rule, noteStatusUpdates, additionalColumns) ==
  additionalColumns # None
    => NoteIdSet(noteStatusUpdates) = NoteIdSet(additionalColumns.rows)

\* the check that additionalColumns and noteStatusUpdates cover the same notes
ColumnsMatchUpdates(rule, noteStatusUpdates, additionalColumns) ==
  (additionalColumns # None /\ rule.ruleID # "NMR_DUE_TO_MIN_STABLE_CRH_TIME")
    => NoteIdSet(noteStatusUpdates) = NoteIdSet(additionalColumns.rows)

\* the rule has passed both checks: ruleIDs.add(rule.get_rule_id()), then the call
Entered(st, rule) ==
  [st EXCEPT !.ruleIDs = @ \cup {rule.ruleID}, !.calls = Append(@, rule.ruleID)]

\* score_notes has returned (noteStatusUpdates, additionalColumns)
Returned(st, rule, noteStatusUpdates, additionalColumns) ==
  [st EXCEPT !.emitted = Append(@, [ruleID |-> rule.ruleID,
                                    updates |-> noteStatusUpdates,
                                    extras |-> additionalColumns])]

\* the rule attributed to every labelled note instead of the notes it updated
Labelled_EveryNote(st, rule, noteStatusUpdates) ==
  [st EXCEPT !.noteLabels = UpdateLabels(@, noteStatusUpdates),
             !.noteRules = AppendRules(@, UpdateLabels(st.noteLabels, noteStatusUpdates),
                                       get_name(rule.ruleID))]

\* noteLabels and noteRules take the rule's updates
Labelled(st, rule, noteStatusUpdates) ==
  [st EXCEPT !.noteLabels = UpdateLabels(@, noteStatusUpdates),
             !.noteRules = AppendRules(@, noteStatusUpdates, get_name(rule.ruleID))]

\* the merge without the assertion on shared column names
WithColumns_Unasserted(st, additionalColumns) ==
  IF additionalColumns = None THEN st
  ELSE [st EXCEPT !.noteColumns = MergeColumns(@, additionalColumns)]

\* "if additionalColumns is not None": the column-name assertion, then the merge
WithColumns(st, additionalColumns) ==
  IF additionalColumns = None THEN st
  ELSE IF st.noteColumns.columns \cap additionalColumns.columns # {}
    THEN Raise(st, "ColumnClash")
  ELSE [st EXCEPT !.noteColumns = MergeColumns(@, additionalColumns)]

Accumulate(st, rule, noteStatusUpdates, additionalColumns) ==
  IF ~ColumnsMatchUpdates(rule, noteStatusUpdates, additionalColumns)
    THEN Raise(st, "ExtrasMismatch")
  ELSE WithColumns(Labelled(st, rule, noteStatusUpdates), additionalColumns)

AfterScoring(st, rule, result) ==
  IF ~result.ok THEN Raise(st, "RuleAssertion")
  ELSE Accumulate(Returned(st, rule, result.updates, result.extras), rule,
                  result.updates, result.extras)

\* the loop without the assertion on repeated RuleIDs
NotRepeated_Unchecked(rule, priorRules) == TRUE

\* the condition of "assert rule.get_rule_id() not in ruleIDs"
NotRepeated(rule, priorRules) == rule.ruleID \notin priorRules

LoopBody(st, rule, stats) ==
  IF ~check_dependencies(rule, st.ruleIDs) THEN Raise(st, "DependencyViolation")
  ELSE IF ~NotRepeated(rule, st.ruleIDs) THEN Raise(st, "DuplicateRule")
  ELSE AfterScoring(Entered(st, rule), rule, score_notes(rule, stats, st.noteLabels))

\* the caller's noteStats after the iteration: the rules get the table itself,
\* and InsufficientExplanation, once called, writes to it
InPlace(st, rule, stats) ==
  IF /\ check_dependencies(rule, st.ruleIDs)
     /\ NotRepeated(rule, st.ruleIDs)
     /\ rule.kind = "InsufficientExplanation"
    THEN InsufficientExplanation_noteStats(rule, stats, st.noteLabels)
    ELSE stats

\* Condense with decidedBy taken from the head of the list instead of its end
Condense_FirstRule(attribution, decided) ==
  LET ids == Sorted(NoteIdSet(attribution))
      listOf(n) ==
        LET mine == Rows(attribution, LAMBDA i : attribution[i].noteId = n, 1)
        IN [i \in 1..Len(mine) |-> mine[i].rule]
  IN [k \in 1..Len(ids) |->
        [noteId |-> ids[k],
         decidedBy |-> IF decided THEN listOf(ids[k])[1] ELSE NaN,
         activeRules |-> join(",", listOf(ids[k]))]]

\* noteRules.groupby(c.noteIdKey).aggregate(list).reset_index(), then the
\* decidedBy column (the last list element) and the joined rule column
Condense(attribution, decided) ==
  LET ids == Sorted(NoteIdSet(attribution))
      listOf(n) ==
        LET mine == Rows(attribution, LAMBDA i : attribution[i].noteId = n, 1)
        IN [i \in 1..Len(mine) |-> mine[i].rule]
  IN [k \in 1..Len(ids) |->
        [noteId |-> ids[k],
         decidedBy |-> IF decided THEN listOf(ids[k])[Len(listOf(ids[k]))] ELSE NaN,
         activeRules |-> join(",", listOf(ids[k]))]]

\* the row with awaitingMoreRatingsBool set for every note that is not CRH or CRNH
ScoredRow_AwaitingOtherwise(s, l, r, vals) ==
  [noteId |-> s.noteId, noteStats |-> s, status |-> l.status,
   activeRules |-> r.activeRules, decidedBy |-> r.decidedBy, vals |-> vals,
   currentlyRatedHelpfulBool |-> l.status = currentlyRatedHelpful,
   currentlyRatedNotHelpfulBool |-> l.status = currentlyRatedNotHelpful,
   awaitingMoreRatingsBool |->
     l.status \notin {currentlyRatedHelpful, currentlyRatedNotHelpful}]

\* one row of scoredNotes: the noteStats row with its label, rule columns, the
\* additional columns and the three boolean columns
ScoredRow(s, l, r, vals) ==
  [noteId |-> s.noteId, noteStats |-> s, status |-> l.status,
   activeRules |-> r.activeRules, decidedBy |-> r.decidedBy, vals |-> vals,
   currentlyRatedHelpfulBool |-> l.status = currentlyRatedHelpful,
   currentlyRatedNotHelpfulBool |-> l.status = currentlyRatedNotHelpful,
   awaitingMoreRatingsBool |-> l.status = needsMoreRatings]

RECURSIVE FlatMap(_, _, _)
FlatMap(df, f(_), i) ==
  IF i > Len(df) THEN <<>> ELSE f(df[i]) \o FlatMap(df, f, i + 1)

\* noteStats.merge(noteLabels, how="inner").merge(noteRules, how="inner")
\*          .merge(noteColumns, how="left"), all on c.noteIdKey
MergeScored(stats, labels, condensed, columns) ==
  LET sameNote(df, n) == Rows(df, LAMBDA i : df[i].noteId = n, 1)
      extras(n) ==
        IF n \in NoteIdSet(columns.rows)
          THEN [i \in 1..Len(sameNote(columns.rows, n)) |-> sameNote(columns.rows, n)[i].vals]
          ELSE <<Missing(columns.columns)>>
  IN FlatMap(stats,
       LAMBDA s : FlatMap(sameNote(labels, s.noteId),
         LAMBDA l : FlatMap(sameNote(condensed, s.noteId),
           LAMBDA r : FlatMap(extras(s.noteId),
             LAMBDA v : <<ScoredRow(s, l, r, v)>>, 1), 1), 1), 1)

\* the statements after the loop without the three assertions on the noteId sets
Finish_Unvalidated(st, stats, decided) ==
  LET condensed == Condense(st.noteRules, decided)
      merged == MergeScored(stats, st.noteLabels, condensed, st.noteColumns)
      raise(what) == [pc |-> "failed", error |-> what, scoredNotes |-> <<>>]
  IN IF Len(merged) # Len(stats) THEN raise("RowCount")
     ELSE [pc |-> "done", error |-> "", scoredNotes |-> merged]

\* the statements after the loop: condense, validate, merge, return
Finish(st, stats, decided) ==
  LET condensed == Condense(st.noteRules, decided)
      merged == MergeScored(stats, st.noteLabels, condensed, st.noteColumns)
      raise(what) == [pc |-> "failed", error |-> what, scoredNotes |-> <<>>]
  IN IF NoteIdSet(stats) # NoteIdSet(st.noteLabels) THEN raise("MissingLabels")
     ELSE IF NoteIdSet(stats) # NoteIdSet(condensed) THEN raise("MissingRules")
     ELSE IF NoteIdSet(st.noteColumns.rows) \ NoteIdSet(stats) # {}
       THEN raise("ColumnsNotInInput")
     ELSE IF Len(merged) # Len(stats) THEN raise("RowCount")
     ELSE [pc |-> "done", error |-> "", scoredNotes |-> merged]

\* apply_scoring_rules(noteStats, rules, ...) as one function of its arguments
RECURSIVE Loop(_, _, _, _)
Loop(st, ruleList, stats, i) ==
  IF i > Len(ruleList) \/ st.pc # "running" THEN st
  ELSE Loop(LoopBody(st, ruleList[i], stats), ruleList,
            InPlace(st, ruleList[i], stats), i + 1)

\* noteStats when the loop ends
RECURSIVE LoopStats(_, _, _, _)
LoopStats(st, ruleList, stats, i) ==
  IF i > Len(ruleList) \/ st.pc # "running" THEN stats
  ELSE LoopStats(LoopBody(st, ruleList[i], stats), ruleList,
                 InPlace(st, ruleList[i], stats), i + 1)

apply_scoring_rules(stats, ruleList, decided) ==
  LET st == Loop(InitialState, ruleList, stats, 1)
  IN IF st.pc = "running"
       THEN Finish(st, LoopStats(InitialState, ruleList, stats, 1), decided)
              @@ [emitted |-> st.emitted]
       ELSE [pc |-> st.pc, error |-> st.error, scoredNotes |-> <<>>, emitted |-> st.emitted]

(***************************************************************************)
(* Inputs.  A noteStats row carries every column the rules read; NoStats   *)
(* is a row with every signal missing.                                     *)
(***************************************************************************)
NoStats ==
  [noteId |-> 0, internalNoteIntercept |-> <<>>, classification |-> NaN,
   lowDiligenceNoteIntercept |-> <<>>, coreRatingStatus |-> NaN,
   expansionRatingStatus |-> NaN, currentLabel |-> NaN,
   timestampMillisOfNmrDueToMinStableCrhTime |-> <<>>, numRatings |-> <<>>,
   firstTag |-> NaN, secondTag |-> NaN, modelingGroup |-> <<>>,
   coverageRatingStatus |-> NaN, groupRatingStatus |-> NaN,
   internalNoteFactor1 |-> <<>>, noteTopic |-> NaN, topicNoteConfident |-> FALSE,
   topicNoteIntercept |-> <<>>, topicNoteFactor1 |-> <<>>,
   coreNoteIntercept |-> <<>>, expansionNoteIntercept |-> <<>>,
   notHelpfulOther_adjusted |-> <<>>, notHelpfulOther_adjusted_ratio |-> <<>>,
   notHelpfulIncorrect_adjusted |-> <<>>, notHelpfulIncorrect_adjusted_ratio |-> <<>>,
   notHelpfulHardToUnderstand_adjusted |-> <<>>,
   notHelpfulHardToUnderstand_adjusted_ratio |-> <<>>,
   notHelpfulArgumentativeOrBiased_adjusted |-> <<>>,
   notHelpfulArgumentativeOrBiased_adjusted_ratio |-> <<>>,
   notHelpfulIncorrect_interval |-> <<>>, num_voters_interval |-> <<>>,
   tf_idf_incorrect_interval |-> <<>>,
   helpfulClear |-> 0, helpfulGoodSources |-> 0,
   notHelpfulIncorrect |-> 0, notHelpfulOther |-> 0]

\* noteId columns of up to MaxNotes rows, repeated noteIds included; noteIds are
\* numbered in order of first appearance
NoteIdColumns ==
  {ids \in UNION {[1..n -> 1..MaxNotes] : n \in 0..MaxNotes} :
     \A i \in 1..Len(ids) : \A m \in 1..(ids[i] - 1) : \E j \in 1..(i - 1) : ids[j] = m}

\* noteId columns of up to MaxNotes rows with no noteId repeated
UniqueNoteIdColumns == {[i \in 1..n |-> i] : n \in 0..MaxNotes}

\* the tables with one of the given noteId columns whose rows take their signals
\* from the set profiles
Tables(idColumns, profiles) ==
  UNION {{[i \in 1..Len(ids) |-> [ps[i] EXCEPT !.noteId = ids[i]]] :
            ps \in [1..Len(ids) -> profiles]} : ids \in idColumns}

UniqueNoteIds(df) == \A i, j \in 1..Len(df) : df[i].noteId = df[j].noteId => i = j

\* signals read by the rules of DriverCatalog: <<internalNoteIntercept,
\* lowDiligenceNoteIntercept>> on either side of the thresholds of the catalog,
\* and a core model status that is missing, CRNH or FIRM_REJECT
DriverProfiles ==
  {[NoStats EXCEPT !.internalNoteIntercept = <<signals[1]>>,
                   !.classification = noteSaysTweetIsMisleadingKey,
                   !.lowDiligenceNoteIntercept = <<signals[2]>>,
                   !.coreRatingStatus = core] :
     signals \in {<<20, 10>>, <<50, 10>>, <<50, 30>>},
     core \in {NaN, currentlyRatedNotHelpful, firmReject}}

DefaultRule(ruleID, dependencies, status) ==
  [kind |-> "DefaultRule", ruleID |-> ruleID, dependencies |-> dependencies,
   status |-> status]

RuleFromFunction(ruleID, dependencies, status, threshold, onlyMisleading) ==
  [kind |-> "RuleFromFunction", ruleID |-> ruleID, dependencies |-> dependencies,
   status |-> status, threshold |-> threshold,
   onlyApplyToNotesThatSayTweetIsMisleading |-> onlyMisleading]

ApplyModelResult(ruleID, dependencies, sourceColumn, checkFirmReject, filterColumnPairs) ==
  [kind |-> "ApplyModelResult", ruleID |-> ruleID, dependencies |-> dependencies,
   sourceColumn |-> sourceColumn, checkFirmReject |-> checkFirmReject,
   filterColumnPairs |-> filterColumnPairs]

FilterTagOutliers(ruleID, dependencies, status, tagFilterThresholds, minAdjustedTotal) ==
  [kind |-> "FilterTagOutliers", ruleID |-> ruleID, dependencies |-> dependencies,
   status |-> status, tagFilterThresholds |-> tagFilterThresholds,
   minAdjustedTotal |-> minAdjustedTotal]

FilterIncorrect(ruleID, deps, status, tagThreshold, voteThreshold, weightedTotalVotes) ==
  [kind |-> "FilterIncorrect", ruleID |-> ruleID, dependencies |-> deps,
   status |-> status, tagThreshold |-> tagThreshold, voteThreshold |-> voteThreshold,
   weightedTotalVotes |-> weightedTotalVotes]

ApplyGroupModelResult(ruleID, deps, groupNumber, coreCrhThreshold, expansionCrhThreshold, minSafeguardThreshold) ==
  [kind |-> "ApplyGroupModelResult", ruleID |-> ruleID, dependencies |-> deps,
   groupNumber |-> groupNumber, coreCrhThreshold |-> coreCrhThreshold,
   expansionCrhThreshold |-> expansionCrhThreshold,
   minSafeguardThreshold |-> minSafeguardThreshold]

NMtoCRNH(ruleID, dependencies, status, crnhThresholdNMIntercept) ==
  [kind |-> "NMtoCRNH", ruleID |-> ruleID, dependencies |-> dependencies,
   status |-> status, crnhThresholdNMIntercept |-> crnhThresholdNMIntercept]

FilterLargeFactor(ruleID, dependencies, status, factorThreshold) ==
  [kind |-> "FilterLargeFactor", ruleID |-> ruleID, dependencies |-> dependencies,
   status |-> status, factorThreshold |-> factorThreshold]

ApplyTopicModelResult(ruleID, deps, topic, topicNMRInterceptThreshold, topicNMRFactorThreshold) ==
  [kind |-> "ApplyTopicModelResult", ruleID |-> ruleID, dependencies |-> deps,
   topic |-> topic, topicNMRInterceptThreshold |-> topicNMRInterceptThreshold,
   topicNMRFactorThreshold |-> topicNMRFactorThreshold]

FilterLowDiligence(ruleID, dependencies, status, interceptThreshold) ==
  [kind |-> "FilterLowDiligence", ruleID |-> ruleID, dependencies |-> dependencies,
   status |-> status, interceptThreshold |-> interceptThreshold]

RejectLowIntercept(ruleID, dependencies, status, firmRejectThreshold) ==
  [kind |-> "RejectLowIntercept", ruleID |-> ruleID, dependencies |-> dependencies,
   status |-> status, firmRejectThreshold |-> firmRejectThreshold]

NmrDueToMinStableCrhTime(ruleID, dependencies, requiredStableCrhMinutesThreshold) ==
  [kind |-> "NmrDueToMinStableCrhTime", ruleID |-> ruleID, dependencies |-> dependencies,
   requiredStableCrhMinutesThreshold |-> requiredStableCrhMinutesThreshold]

ScoringDriftGuard(ruleID, dependencies, lockedStatus) ==
  [kind |-> "ScoringDriftGuard", ruleID |-> ruleID, dependencies |-> dependencies,
   lockedStatus |-> lockedStatus]

AddCRHInertia(ruleID, dependencies, status, threshold, expectedMax, minRatingsNeeded) ==
  [kind |-> "AddCRHInertia", ruleID |-> ruleID, dependencies |-> dependencies,
   status |-> status, threshold |-> threshold, expectedMax |-> expectedMax,
   minRatingsNeeded |-> minRatingsNeeded]

ScoringRule(ruleID, dependencies, noteStatusUpdates, additionalColumns) ==
  [kind |-> "ScoringRule", ruleID |-> ruleID, dependencies |-> dependencies,
   noteStatusUpdates |-> noteStatusUpdates, additionalColumns |-> additionalColumns]

\* tagsConsidered is left at its default, None
InsufficientExplanation(ruleID, dependencies, status, minRatings, minTags) ==
  [kind |-> "InsufficientExplanation", ruleID |-> ruleID, dependencies |-> dependencies,
   status |-> status, minRatingsToGetTag |-> minRatings,
   minTagsNeededForStatus |-> minTags]

\* the rule objects of the driver specification
DriverCatalog ==
  { DefaultRule("INITIAL_NMR", {}, needsMoreRatings),
    RuleFromFunction("GENERAL_CRH", {"INITIAL_NMR"}, currentlyRatedHelpful, 40, TRUE),
    RejectLowIntercept("LOW_INTERCEPT", {"INITIAL_NMR"}, firmReject, 30),
    FilterLowDiligence("LOW_DILIGENCE", {"INITIAL_NMR"}, needsMoreRatings, 20),
    ApplyModelResult("CORE_MODEL", {}, "coreRatingStatus", FALSE, <<>>),
    ApplyModelResult("EXPANSION_MODEL", {"EXPANSION_MODEL"}, "expansionRatingStatus",
                     FALSE, <<>>) }

\* signals read by the rules of ExtrasCatalog; the clock of the run is Now and
\* the required stable time 30 minutes, so a timestamp of 100000 has matured and
\* one of 1900000 has not
Now == 2000 * 1000

ExtrasProfiles ==
  {[NoStats EXCEPT !.internalNoteIntercept = <<x>>,
                   !.classification = noteSaysTweetIsMisleadingKey,
                   !.currentLabel = label,
                   !.timestampMillisOfNmrDueToMinStableCrhTime = t] :
     x \in {20, 50},
     label \in {needsMoreRatings, currentlyRatedHelpful},
     t \in {<<>>, <<100000>>, <<1900000>>}}

\* a lockedStatus table: note 1 locked to CRH, note 2 without a locked status
LockedToHelpful ==
  <<[noteId |-> 1, lockedStatus |-> currentlyRatedHelpful],
    [noteId |-> 2, lockedStatus |-> NaN]>>

\* rule objects that return additionalColumns; the second NmrDueToMinStableCrhTime
\* object carries a RuleID other than NMR_DUE_TO_MIN_STABLE_CRH_TIME
ExtrasCatalog ==
  { DefaultRule("INITIAL_NMR", {}, needsMoreRatings),
    RuleFromFunction("GENERAL_CRH", {"INITIAL_NMR"}, currentlyRatedHelpful, 40, TRUE),
    NmrDueToMinStableCrhTime("NMR_DUE_TO_MIN_STABLE_CRH_TIME", {"INITIAL_NMR"}, 30),
    NmrDueToMinStableCrhTime("GENERAL_CRH_INERTIA", {"INITIAL_NMR"}, 30),
    ScoringDriftGuard("SCORING_DRIFT_GUARD", {"INITIAL_NMR"}, LockedToHelpful) }

\* the stabilization period of the NmrDueToMinStableCrhTime rule of StableCatalog
RequiredStableCrhMinutes == 30

\* the latest timestamp that has matured at the clock value Now
Matured == Now - RequiredStableCrhMinutes * 60 * 1000

\* signals read by the rules of StableCatalog: an intercept on either side of the
\* GeneralCRH threshold, the label of the previous run, and a timestamp that is
\* missing, zero, just matured or one millisecond short of it
StableProfiles ==
  {[NoStats EXCEPT !.internalNoteIntercept = <<x>>,
                   !.classification = noteSaysTweetIsMisleadingKey,
                   !.currentLabel = label,
                   !.timestampMillisOfNmrDueToMinStableCrhTime = t] :
     x \in {20, 50},
     label \in {needsMoreRatings, currentlyRatedHelpful},
     t \in {<<>>, <<0>>, <<Matured>>, <<Matured + 1>>}}

StableCatalog ==
  { DefaultRule("INITIAL_NMR", {}, needsMoreRatings),
    RuleFromFunction("GENERAL_CRH", {"INITIAL_NMR"}, currentlyRatedHelpful, 40, TRUE),
    NmrDueToMinStableCrhTime("NMR_DUE_TO_MIN_STABLE_CRH_TIME", {"INITIAL_NMR"},
                             RequiredStableCrhMinutes) }

\* signals read by the rules of RejectCatalog: an intercept below or above the
\* firm-reject threshold, model statuses that are missing, CRH or FIRM_REJECT,
\* (the expansion model's also CRNH), and either label of the previous run
RejectProfiles ==
  {[NoStats EXCEPT !.internalNoteIntercept = <<x>>,
                   !.classification = noteSaysTweetIsMisleadingKey,
                   !.numRatings = <<5>>,
                   !.coreRatingStatus = core,
                   !.expansionRatingStatus = expansion,
                   !.currentLabel = label] :
     x \in {20, 50},
     core \in {NaN, currentlyRatedHelpful, firmReject},
     expansion \in {NaN, currentlyRatedHelpful, currentlyRatedNotHelpful},
     label \in {needsMoreRatings, currentlyRatedHelpful}}

\* a list that firmly rejects low intercepts, with the rules that assign CRH: a
\* function rule and an inertia rule whose thresholds lie below the firm-reject
\* threshold, and model results copied without and with the firm-reject check
RejectCatalog ==
  { DefaultRule("INITIAL_NMR", {}, needsMoreRatings),
    RejectLowIntercept("LOW_INTERCEPT", {"INITIAL_NMR"}, firmReject, 30),
    RuleFromFunction("GENERAL_CRH", {"INITIAL_NMR"}, currentlyRatedHelpful, 10, TRUE),
    AddCRHInertia("GENERAL_CRH_INERTIA", {"INITIAL_NMR"}, currentlyRatedHelpful, 15, 60, 5),
    ApplyModelResult("CORE_MODEL", {}, "coreRatingStatus", FALSE, <<>>),
    ApplyModelResult("EXPANSION_MODEL", {}, "expansionRatingStatus", TRUE, <<>>) }

(***************************************************************************)
(* The state machine: the caller supplies the table, then the rule list    *)
(* one rule at a time (ApplyRule is one loop iteration on the next rule of *)
(* the list), and Finalize runs the statements after the loop when the     *)
(* list ends.                                                              *)
(***************************************************************************)
InitWith(tables, ruleObjects, clocks) ==
  /\ noteStats \in tables
  /\ epochMillis \in clocks
  /\ catalog = ruleObjects
  /\ rules = <<>>
  /\ ruleIDs = InitialState.ruleIDs
  /\ noteLabels = InitialState.noteLabels
  /\ noteRules = InitialState.noteRules
  /\ noteColumns = InitialState.noteColumns
  /\ calls = InitialState.calls
  /\ emitted = InitialState.emitted
  /\ decidedByColumn = FALSE
  /\ scoredNotes = <<>>
  /\ pc = InitialState.pc
  /\ error = InitialState.error
  /\ runs = <<>>
  /\ passed = noteStats

Init == InitWith(Tables(UniqueNoteIdColumns, DriverProfiles), DriverCatalog, {Now})

InitExtras == InitWith(Tables(UniqueNoteIdColumns, ExtrasProfiles), ExtrasCatalog, {Now})

\* a note that has not been scored before (no timestamp), with either label
FreshProfiles ==
  {[NoStats EXCEPT !.internalNoteIntercept = <<x>>,
                   !.classification = noteSaysTweetIsMisleadingKey,
                   !.currentLabel = label] :
     x \in {20, 50}, label \in {needsMoreRatings, currentlyRatedHelpful}}

\* the rule list of the successive runs: NmrDueToMinStableCrhTime is the last rule
RunRules ==
  << DefaultRule("INITIAL_NMR", {}, needsMoreRatings),
     RuleFromFunction("GENERAL_CRH", {"INITIAL_NMR"}, currentlyRatedHelpful, 40, TRUE),
     NmrDueToMinStableCrhTime("NMR_DUE_TO_MIN_STABLE_CRH_TIME", {"INITIAL_NMR"},
                              RequiredStableCrhMinutes) >>

\* the clock advances between two runs by nothing, half the stabilization period
\* or the whole of it
ClockSteps ==
  {0, RequiredStableCrhMinutes * 30 * 1000, RequiredStableCrhMinutes * 60 * 1000}

InitRuns == InitWith(Tables({<<1>>}, FreshProfiles), StableCatalog, {Now})

\* signals of the tables with repeated noteIds: both intercepts below or above
\* the thresholds of RepeatedCatalog, core model status missing or CRNH
RepeatedProfiles ==
  {[NoStats EXCEPT !.internalNoteIntercept = <<signals[1]>>,
                   !.classification = noteSaysTweetIsMisleadingKey,
                   !.lowDiligenceNoteIntercept = <<signals[2]>>,
                   !.coreRatingStatus = core] :
     signals \in {<<20, 10>>, <<50, 30>>},
     core \in {NaN, currentlyRatedNotHelpful}}

RepeatedCatalog ==
  { DefaultRule("INITIAL_NMR", {}, needsMoreRatings),
    RuleFromFunction("GENERAL_CRH", {"INITIAL_NMR"}, currentlyRatedHelpful, 40, TRUE),
    FilterLowDiligence("LOW_DILIGENCE", {"INITIAL_NMR"}, needsMoreRatings, 20),
    ApplyModelResult("CORE_MODEL", {}, "coreRatingStatus", FALSE, <<>>) }

\* tables in which a noteId may occur on more than one row
InitRepeated == InitWith(Tables(NoteIdColumns, RepeatedProfiles), RepeatedCatalog, {Now})

\* a noteId that no input table contains
OutsideNoteId == MaxNotes + 1

AnyProfiles ==
  {[NoStats EXCEPT !.internalNoteIntercept = <<x>>,
                   !.classification = noteSaysTweetIsMisleadingKey] : x \in {20, 50}}

\* one extras table of a single row for note n
TimestampFor(n) ==
  [columns |-> {updatedTimestampMillisOfNmrDueToMinStableCrhTimeKey},
   rows |-> <<ColumnRow(n, (updatedTimestampMillisOfNmrDueToMinStableCrhTimeKey :> <<Now>>))>>]

\* a DefaultRule and three rules of other classes: one updates note 1 alone, one
\* returns an extras row for a note outside the input under the RuleID whose
\* extras need not match its updates, one updates a note outside the input
AnyCatalog ==
  { DefaultRule("INITIAL_NMR", {}, needsMoreRatings),
    ScoringRule("GENERAL_CRH", {}, <<Update(1, currentlyRatedHelpful)>>, None),
    ScoringRule("NMR_DUE_TO_MIN_STABLE_CRH_TIME", {}, <<>>, TimestampFor(OutsideNoteId)),
    ScoringRule("GENERAL_CRNH", {}, <<Update(OutsideNoteId, currentlyRatedNotHelpful)>>, None) }

InitAny == InitWith(Tables(UniqueNoteIdColumns, AnyProfiles), AnyCatalog, {Now})

\* signals read by the rules of FrameCatalog: an intercept on either side of the
\* CRH threshold, a core model status that is missing or CRNH, and ratings of
\* <<helpfulClear, helpfulGoodSources, notHelpfulIncorrect>> that give no tag,
\* one tag or two helpful tags
FrameProfiles ==
  {[NoStats EXCEPT !.internalNoteIntercept = <<x>>,
                   !.classification = noteSaysTweetIsMisleadingKey,
                   !.coreRatingStatus = core,
                   !.helpfulClear = tags[1],
                   !.helpfulGoodSources = tags[2],
                   !.notHelpfulIncorrect = tags[3]] :
     x \in {20, 50},
     core \in {NaN, currentlyRatedNotHelpful},
     tags \in {<<0, 0, 0>>, <<2, 0, 2>>, <<2, 3, 2>>}}

FrameCatalog ==
  { DefaultRule("INITIAL_NMR", {}, needsMoreRatings),
    RuleFromFunction("GENERAL_CRH", {"INITIAL_NMR"}, currentlyRatedHelpful, 40, TRUE),
    ApplyModelResult("CORE_MODEL", {"INITIAL_NMR"}, "coreRatingStatus", FALSE, <<>>),
    InsufficientExplanation("INSUFFICIENT_EXPLANATION", {"INITIAL_NMR"}, needsMoreRatings,
                            2, 2) }

InitFrame == InitWith(Tables({<<1>>, <<1, 2>>}, FrameProfiles), FrameCatalog, {Now})

\* signals read by the rules of ModelCatalog: the core model's status is
\* missing, one of the four statuses or a value that is no status; the expansion
\* model's is missing, CRH, CRNH or FIRM_REJECT; the coverage model's is missing
\* or CRH; the note is of group 1 or 2
ModelProfiles ==
  {[NoStats EXCEPT !.classification = noteSaysTweetIsMisleadingKey,
                   !.coreRatingStatus = core,
                   !.expansionRatingStatus = expansion,
                   !.coverageRatingStatus = coverage,
                   !.modelingGroup = <<group>>] :
     core \in {NaN, currentlyRatedHelpful, currentlyRatedNotHelpful, firmReject,
               needsMoreRatings, "UNRATED"},
     expansion \in {NaN, currentlyRatedHelpful, currentlyRatedNotHelpful, firmReject},
     coverage \in {NaN, currentlyRatedHelpful},
     group \in {1, 2}}

\* model results copied without the firm-reject check, with it, and with it and
\* a filter column pair
ModelCatalog ==
  { DefaultRule("META_INITIAL_NMR", {}, needsMoreRatings),
    ApplyModelResult("CORE_MODEL", {}, "coreRatingStatus", FALSE, <<>>),
    ApplyModelResult("EXPANSION_MODEL", {}, "expansionRatingStatus", TRUE, <<>>),
    ApplyModelResult("COVERAGE_MODEL", {}, "coverageRatingStatus", TRUE,
                     <<(<<"modelingGroup", <<1>>>>)>>) }

InitModel == InitWith(Tables({<<1>>}, ModelProfiles), ModelCatalog, {Now})

\* the thresholds of the tag filter, one per adjusted ratio column
TagFilterThresholds ==
  [notHelpfulOther_adjusted_ratio |-> 80,
   notHelpfulIncorrect_adjusted_ratio |-> 80,
   notHelpfulHardToUnderstand_adjusted_ratio |-> 80,
   notHelpfulArgumentativeOrBiased_adjusted_ratio |-> 80]

\* a value above the threshold of a filter when hot, below it otherwise
Level(hot, high, low) == IF hot THEN <<high>> ELSE <<low>>

\* notes the core model rates CRNH, CRH or not at all, with the statistics each
\* of the four filters reads above or below its thresholds
FilterProfiles ==
  {[NoStats EXCEPT !.classification = noteSaysTweetIsMisleadingKey,
                   !.coreRatingStatus = core,
                   !.notHelpfulOther_adjusted = Level(tagged, 300, 100),
                   !.notHelpfulOther_adjusted_ratio = Level(tagged, 90, 10),
                   !.notHelpfulIncorrect_interval = Level(incorrect, 3, 0),
                   !.num_voters_interval = Level(incorrect, 4, 0),
                   !.tf_idf_incorrect_interval = Level(incorrect, 300, 0),
                   !.lowDiligenceNoteIntercept = Level(careless, 40, 10),
                   !.internalNoteIntercept = Level(~low, 50, 20)] :
     core \in {NaN, currentlyRatedHelpful, currentlyRatedNotHelpful},
     tagged \in BOOLEAN, incorrect \in BOOLEAN, careless \in BOOLEAN, low \in BOOLEAN}

\* the core model's result followed by the four filters
FilterCatalog ==
  { DefaultRule("INITIAL_NMR", {}, needsMoreRatings),
    ApplyModelResult("CORE_MODEL", {}, "coreRatingStatus", FALSE, <<>>),
    FilterTagOutliers("TAG_OUTLIER", {}, needsMoreRatings, TagFilterThresholds, 250),
    FilterIncorrect("INCORRECT_OUTLIER", {}, needsMoreRatings, 2, 3, 250),
    FilterLowDiligence("LOW_DILIGENCE", {}, needsMoreRatings, 30),
    RejectLowIntercept("LOW_INTERCEPT", {}, firmReject, 30) }

InitFilter == InitWith(Tables({<<1>>}, FilterProfiles), FilterCatalog, {Now})

\* a tag's adjusted total and adjusted ratio written into a row
Tagged(row, tag, total, ratio) ==
  [row EXCEPT ![tag \o adjustedSuffix] = total,
              ![(tag \o adjustedSuffix) \o ratioSuffix] = ratio]

\* notes the core model rates CRNH or not at all; notHelpfulOther above both
\* thresholds, at one of them, or without a total; each other tag above both
\* thresholds or below them
TagProfiles ==
  {Tagged(Tagged(Tagged(Tagged(
     [NoStats EXCEPT !.classification = noteSaysTweetIsMisleadingKey,
                     !.coreRatingStatus = core],
     "notHelpfulOther", other[1], other[2]),
     "notHelpfulIncorrect", Level(incorrect, 300, 100), Level(incorrect, 90, 10)),
     notHelpfulHardToUnderstandKey, Level(hard, 300, 100), Level(hard, 90, 10)),
     "notHelpfulArgumentativeOrBiased", Level(biased, 300, 100), Level(biased, 90, 10)) :
     core \in {NaN, currentlyRatedNotHelpful},
     other \in {<<(<<300>>), (<<90>>)>>, <<(<<250>>), (<<90>>)>>,
                <<(<<300>>), (<<80>>)>>, <<(<<>>), (<<90>>)>>},
     incorrect \in BOOLEAN, hard \in BOOLEAN, biased \in BOOLEAN}

\* the profiles of the two-note tables: every tag above its thresholds, or only
\* notHelpfulHardToUnderstand and notHelpfulArgumentativeOrBiased, or none
PairProfiles ==
  {p \in TagProfiles :
     /\ p.coreRatingStatus = NaN
     /\ p.notHelpfulOther_adjusted_ratio = <<90>>
     /\ p.notHelpfulOther_adjusted \in {<<300>>, <<>>}
     /\ p.notHelpfulHardToUnderstand_adjusted = p.notHelpfulArgumentativeOrBiased_adjusted
     /\ Gt(p.notHelpfulOther_adjusted, 250) => Gt(p.notHelpfulIncorrect_adjusted, 250)
     /\ Gt(p.notHelpfulIncorrect_adjusted, 250) => Gt(p.notHelpfulHardToUnderstand_adjusted, 250)}

\* the core model's result and the tag filter
TagCatalog ==
  { DefaultRule("INITIAL_NMR", {}, needsMoreRatings),
    ApplyModelResult("CORE_MODEL", {}, "coreRatingStatus", FALSE, <<>>),
    FilterTagOutliers("TAG_OUTLIER", {}, needsMoreRatings, TagFilterThresholds, 250) }

InitTags ==
  InitWith(Tables({<<1>>}, TagProfiles) \cup Tables({<<2, 1>>}, PairProfiles),
           TagCatalog, {Now})

\* the bounds of the group rules: minSafeguardThreshold and the CRH thresholds
\* of the core and expansion intercepts
MinSafeguard == 30
CoreCrh == 40
ExpansionCrh == 45

\* <<coreNoteIntercept, expansionNoteIntercept>>: each missing, at a bound of
\* its range, inside it or above it
GroupIntercepts ==
  { <<(<<>>), (<<>>)>>, <<(<<>>), (<<35>>)>>, <<(<<>>), (<<45>>)>>, <<(<<>>), (<<30>>)>>,
    <<(<<35>>), (<<>>)>>, <<(<<35>>), (<<50>>)>>, <<(<<30>>), (<<35>>)>>,
    <<(<<40>>), (<<35>>)>>, <<(<<50>>), (<<35>>)>> }

\* notes of group 1 or 2 that the group model rates CRH or NMR, blocked by the
\* core model, by the expansion model or not at all, with internalNoteIntercept
\* on either side of the thresholds of the rules that label them
GroupProfiles ==
  {[NoStats EXCEPT !.classification = noteSaysTweetIsMisleadingKey,
                   !.internalNoteIntercept = <<x>>,
                   !.coreRatingStatus = rejects[1],
                   !.expansionRatingStatus = rejects[2],
                   !.groupRatingStatus = group[1],
                   !.modelingGroup = <<group[2]>>,
                   !.coreNoteIntercept = intercepts[1],
                   !.expansionNoteIntercept = intercepts[2]] :
     x \in {20, 50},
     rejects \in {<<NaN, NaN>>, <<currentlyRatedNotHelpful, NaN>>, <<NaN, firmReject>>,
                  <<currentlyRatedHelpful, firmReject>>},
     group \in {<<currentlyRatedHelpful, 1>>, <<currentlyRatedHelpful, 2>>,
                <<needsMoreRatings, 1>>},
     intercepts \in GroupIntercepts}

\* a note no model blocks and no group model rates
Unrated == [NoStats EXCEPT !.noteId = 2, !.classification = noteSaysTweetIsMisleadingKey]

\* tables of two notes, the second unblocked
GroupTables == {<<[p EXCEPT !.noteId = 1], Unrated>> : p \in GroupProfiles}

\* rules that make a note NMR, CRH, CRNH or FIRM_REJECT from its
\* internalNoteIntercept, and the group rules of group 1, with both CRH
\* thresholds, and of group 2, with neither
GroupCatalog ==
  { DefaultRule("INITIAL_NMR", {}, needsMoreRatings),
    RuleFromFunction("GENERAL_CRH", {}, currentlyRatedHelpful, 40, TRUE),
    RuleFromFunction("GENERAL_CRNH", {}, currentlyRatedNotHelpful, 40, FALSE),
    RejectLowIntercept("LOW_INTERCEPT", {}, firmReject, 30),
    ApplyGroupModelResult("GROUP_MODEL_1", {}, 1, <<CoreCrh>>, <<ExpansionCrh>>, MinSafeguard),
    ApplyGroupModelResult("GROUP_MODEL_2", {}, 2, <<>>, <<>>, MinSafeguard) }

InitGroup == InitWith(GroupTables, GroupCatalog, {Now})

\* notes with internalNoteIntercept below, at and above the inertia threshold
\* and above its expected maximum, numRatings below and at the minimum, rated
\* CRH or NMR by the previous run, and each classification or none
InertiaProfiles ==
  {[NoStats EXCEPT !.internalNoteIntercept = <<x>>,
                   !.numRatings = <<ratings>>,
                   !.currentLabel = label,
                   !.classification = classification] :
     x \in {10, 15, 50, 70},
     ratings \in {4, 5},
     label \in {currentlyRatedHelpful, needsMoreRatings},
     classification \in {noteSaysTweetIsMisleadingKey, noteSaysTweetIsNotMisleadingKey, NaN}}

\* the profiles of the two-note tables: selected by the inertia rule within its
\* expected maximum, selected above it, and not selected
InertiaPairProfiles ==
  {p \in InertiaProfiles :
     /\ p.numRatings = <<5>>
     /\ p.classification = NaN
     /\ <<p.internalNoteIntercept, p.currentLabel>>
          \in {<<(<<50>>), currentlyRatedHelpful>>, <<(<<70>>), currentlyRatedHelpful>>,
               <<(<<50>>), needsMoreRatings>>}}

\* rules that make a note NMR, CRH or FIRM_REJECT, and the inertia rule
InertiaCatalog ==
  { DefaultRule("INITIAL_NMR", {}, needsMoreRatings),
    RuleFromFunction("GENERAL_CRH", {}, currentlyRatedHelpful, 40, TRUE),
    RejectLowIntercept("LOW_INTERCEPT", {}, firmReject, 30),
    AddCRHInertia("GENERAL_CRH_INERTIA", {}, currentlyRatedHelpful, 15, 60, 5) }

InitInertia ==
  InitWith(Tables({<<1>>}, InertiaProfiles) \cup Tables({<<1, 2>>}, InertiaPairProfiles),
           InertiaCatalog, {Now})

\* notes of each classification or none, with internalNoteIntercept missing,
\* below the thresholds of the catalog or above them
FunctionProfiles ==
  {[NoStats EXCEPT !.internalNoteIntercept = x, !.classification = classification] :
     x \in {<<>>, <<20>>, <<50>>},
     classification \in {noteSaysTweetIsMisleadingKey, noteSaysTweetIsNotMisleadingKey, NaN}}

\* function rules limited to notes that do not say "not misleading" and not
\* limited, and the rule for notes that say "not misleading"
FunctionCatalog ==
  { DefaultRule("INITIAL_NMR", {}, needsMoreRatings),
    RuleFromFunction("GENERAL_CRH", {}, currentlyRatedHelpful, 40, TRUE),
    RuleFromFunction("ELEVATED_CRH", {}, currentlyRatedHelpful, 10, FALSE),
    NMtoCRNH("NM_CRNH", {}, currentlyRatedNotHelpful, 30) }

InitFunction == InitWith(Tables({<<1>>, <<1, 2>>}, FunctionProfiles), FunctionCatalog, {Now})

\* <<noteTopic, topicNoteConfident, topicNoteIntercept, topicNoteFactor1>>: the
\* rule's topic, another or none; confident or not; the intercept missing, below
\* or at its threshold; the factor missing, at its threshold or beyond it on
\* either side
TopicSignals ==
  { <<"UkraineConflict", TRUE, (<<20>>), (<<10>>)>>,
    <<"UkraineConflict", TRUE, (<<24>>), (<<51>>)>>,
    <<"UkraineConflict", TRUE, (<<24>>), (<<-60>>)>>,
    <<"UkraineConflict", TRUE, (<<30>>), (<<60>>)>>,
    <<"UkraineConflict", TRUE, (<<>>), (<<10>>)>>,
    <<"UkraineConflict", TRUE, (<<30>>), (<<>>)>>,
    <<"UkraineConflict", TRUE, (<<>>), (<<>>)>>,
    <<"UkraineConflict", TRUE, (<<20>>), (<<>>)>>,
    <<"UkraineConflict", FALSE, (<<20>>), (<<60>>)>>,
    <<"GazaConflict", TRUE, (<<20>>), (<<60>>)>>,
    <<NaN, FALSE, (<<>>), (<<>>)>> }

\* notes the core model rates CRH or CRNH, with internalNoteIntercept on either
\* side of the firm-reject threshold, each topic signal, and internalNoteFactor1
\* missing, at the factor threshold or beyond it on either side
TopicProfiles ==
  {[NoStats EXCEPT !.classification = noteSaysTweetIsMisleadingKey,
                   !.coreRatingStatus = core,
                   !.internalNoteIntercept = <<x>>,
                   !.internalNoteFactor1 = factor,
                   !.noteTopic = signal[1],
                   !.topicNoteConfident = signal[2],
                   !.topicNoteIntercept = signal[3],
                   !.topicNoteFactor1 = signal[4]] :
     core \in {currentlyRatedHelpful, currentlyRatedNotHelpful},
     x \in {20, 50},
     factor \in {<<>>, <<50>>, <<60>>, <<-60>>},
     signal \in TopicSignals}

\* rules that make a note NMR, CRH, CRNH or FIRM_REJECT, the topic rule and the
\* factor filter
TopicCatalog ==
  { DefaultRule("INITIAL_NMR", {}, needsMoreRatings),
    ApplyModelResult("CORE_MODEL", {}, "coreRatingStatus", FALSE, <<>>),
    RejectLowIntercept("LOW_INTERCEPT", {}, firmReject, 30),
    ApplyTopicModelResult("TOPIC_MODEL_1", {}, "UkraineConflict", 24, 51),
    FilterLargeFactor("LARGE_FACTOR", {}, needsMoreRatings, 50) }

InitTopic == InitWith(Tables({<<1>>}, TopicProfiles), TopicCatalog, {Now})

\* rules that make a note NMR, CRH, CRNH or FIRM_REJECT, and the explanation rule
\* asking for two tags of two ratings or for one tag of three
ExplainCatalog ==
  { DefaultRule("INITIAL_NMR", {}, needsMoreRatings),
    RuleFromFunction("GENERAL_CRH", {}, currentlyRatedHelpful, 40, TRUE),
    ApplyModelResult("CORE_MODEL", {}, "coreRatingStatus", FALSE, <<>>),
    RejectLowIntercept("LOW_INTERCEPT", {}, firmReject, 30),
    InsufficientExplanation("INSUFFICIENT_EXPLANATION", {}, needsMoreRatings, 2, 2),
    InsufficientExplanation("INSUFFICIENT_EXPLANATION", {}, needsMoreRatings, 3, 1) }

InitExplain == InitWith(Tables({<<1>>, <<1, 2>>}, FrameProfiles), ExplainCatalog, {Now})

\* the thresholds of the incorrect filter: tagThreshold, voteThreshold and
\* weightedTotalVotes
TagThreshold == 2
VoteThreshold == 3
WeightedTotalVotes == 250

\* notes the core model rates CRH, CRNH or not at all, with each of the three
\* interval statistics missing, just below its threshold or at it
IncorrectProfiles ==
  {[NoStats EXCEPT !.classification = noteSaysTweetIsMisleadingKey,
                   !.coreRatingStatus = core,
                   !.notHelpfulIncorrect_interval = tags,
                   !.num_voters_interval = voters,
                   !.tf_idf_incorrect_interval = weighted] :
     core \in {NaN, currentlyRatedHelpful, currentlyRatedNotHelpful},
     tags \in {<<>>, <<TagThreshold - 1>>, <<TagThreshold>>},
     voters \in {<<>>, <<VoteThreshold - 1>>, <<VoteThreshold>>},
     weighted \in {<<>>, <<WeightedTotalVotes - 1>>, <<WeightedTotalVotes>>}}

\* the profiles of the two-note tables: every statistic at its threshold, or the
\* number of voters below it
IncorrectPairProfiles ==
  {p \in IncorrectProfiles :
     /\ p.coreRatingStatus = currentlyRatedHelpful
     /\ p.notHelpfulIncorrect_interval = <<TagThreshold>>
     /\ p.tf_idf_incorrect_interval = <<WeightedTotalVotes>>
     /\ p.num_voters_interval # <<>>}

IncorrectCatalog ==
  { DefaultRule("INITIAL_NMR", {}, needsMoreRatings),
    ApplyModelResult("CORE_MODEL", {}, "coreRatingStatus", FALSE, <<>>),
    FilterIncorrect("INCORRECT_OUTLIER", {}, needsMoreRatings, TagThreshold, VoteThreshold,
                    WeightedTotalVotes) }

InitIncorrect ==
  InitWith(Tables({<<1>>}, IncorrectProfiles) \cup Tables({<<2, 1>>}, IncorrectPairProfiles),
           IncorrectCatalog, {Now})

\* notes whose signals meet the conditions of every rule of ReaderCatalog that do
\* not depend on the labels: the core model's status is missing or NMR, and the
\* note was CRH in the previous run and says the tweet is misleading, or was NMR
\* and says it is not
ReaderProfiles ==
  {Tagged([NoStats EXCEPT !.internalNoteIntercept = <<50>>,
                          !.numRatings = <<5>>,
                          !.lowDiligenceNoteIntercept = <<40>>,
                          !.internalNoteFactor1 = <<60>>,
                          !.coreRatingStatus = core,
                          !.currentLabel = previous[1],
                          !.classification = previous[2],
                          !.groupRatingStatus = currentlyRatedHelpful,
                          !.modelingGroup = <<1>>,
                          !.coreNoteIntercept = <<35>>,
                          !.noteTopic = "UkraineConflict",
                          !.topicNoteConfident = TRUE,
                          !.topicNoteIntercept = <<20>>,
                          !.notHelpfulIncorrect_interval = <<TagThreshold>>,
                          !.num_voters_interval = <<VoteThreshold>>,
                          !.tf_idf_incorrect_interval = <<WeightedTotalVotes>>],
          "notHelpfulIncorrect", <<300>>, <<90>>) :
     core \in {NaN, needsMoreRatings},
     previous \in {<<currentlyRatedHelpful, noteSaysTweetIsMisleadingKey>>,
                   <<needsMoreRatings, noteSaysTweetIsNotMisleadingKey>>}}

\* the tables of ReaderProfiles: one note, or two notes of which the core model
\* rates the first
ReaderTables ==
  Tables({<<1>>}, ReaderProfiles)
    \cup {t \in Tables({<<1, 2>>}, ReaderProfiles) :
            /\ t[1].coreRatingStatus = needsMoreRatings
            /\ t[2].coreRatingStatus = NaN
            /\ t[1].currentLabel = t[2].currentLabel}

\* a lockedStatus table: notes 1 and 2 locked to CRNH
LockedToNotHelpful ==
  <<[noteId |-> 1, lockedStatus |-> currentlyRatedNotHelpful],
    [noteId |-> 2, lockedStatus |-> currentlyRatedNotHelpful]>>

\* one rule of every class, none with dependencies
ReaderCatalog ==
  { DefaultRule("INITIAL_NMR", {}, needsMoreRatings),
    RuleFromFunction("GENERAL_CRH", {}, currentlyRatedHelpful, 40, TRUE),
    ApplyModelResult("CORE_MODEL", {}, "coreRatingStatus", FALSE, <<>>),
    NMtoCRNH("NM_CRNH", {}, currentlyRatedNotHelpful, 60),
    FilterTagOutliers("TAG_OUTLIER", {}, needsMoreRatings, TagFilterThresholds, 250),
    FilterIncorrect("INCORRECT_OUTLIER", {}, needsMoreRatings, TagThreshold, VoteThreshold,
                    WeightedTotalVotes),
    FilterLowDiligence("LOW_DILIGENCE", {}, needsMoreRatings, 30),
    FilterLargeFactor("LARGE_FACTOR", {}, needsMoreRatings, 50),
    RejectLowIntercept("LOW_INTERCEPT", {}, firmReject, 60),
    ApplyGroupModelResult("GROUP_MODEL_1", {}, 1, <<CoreCrh>>, <<ExpansionCrh>>, MinSafeguard),
    ApplyTopicModelResult("TOPIC_MODEL_1", {}, "UkraineConflict", 24, 51),
    InsufficientExplanation("INSUFFICIENT_EXPLANATION", {}, needsMoreRatings, 2, 2),
    AddCRHInertia("GENERAL_CRH_INERTIA", {}, currentlyRatedHelpful, 15, 60, 5),
    NmrDueToMinStableCrhTime("NMR_DUE_TO_MIN_STABLE_CRH_TIME", {}, RequiredStableCrhMinutes),
    ScoringDriftGuard("SCORING_DRIFT_GUARD", {}, LockedToNotHelpful) }

InitReaders == InitWith(ReaderTables, ReaderCatalog, {Now})

InitReject == InitWith(Tables({<<1>>}, RejectProfiles), RejectCatalog, {Now})

InitStable == InitWith(Tables(UniqueNoteIdColumns, StableProfiles), StableCatalog, {Now})

State ==
  [ruleIDs |-> ruleIDs, noteLabels |-> noteLabels, noteRules |-> noteRules,
   noteColumns |-> noteColumns, calls |-> calls, emitted |-> emitted,
   pc |-> pc, error |-> error]

\* the driver's local state after a step
Becomes(st) ==
  /\ ruleIDs' = st.ruleIDs
  /\ noteLabels' = st.noteLabels
  /\ noteRules' = st.noteRules
  /\ noteColumns' = st.noteColumns
  /\ calls' = st.calls
  /\ emitted' = st.emitted
  /\ pc' = st.pc
  /\ error' = st.error

\* the function returns out.scoredNotes or raises
Returns(out) ==
  /\ scoredNotes' = out.scoredNotes
  /\ pc' = out.pc
  /\ error' = out.error

ApplyRule ==
  /\ pc = "running"
  /\ Len(rules) < MaxRules
  /\ \E rule \in catalog :
       /\ rules' = Append(rules, rule)
       /\ Becomes(LoopBody(State, rule, noteStats))
       /\ noteStats' = InPlace(State, rule, noteStats)
  /\ UNCHANGED <<epochMillis, catalog, decidedByColumn, scoredNotes, runs, passed>>

Finalize ==
  /\ pc = "running"
  /\ \E decided \in BOOLEAN :
       /\ decidedByColumn' = decided
       /\ Returns(Finish(State, noteStats, decided))
  /\ UNCHANGED <<noteStats, epochMillis, catalog, rules, ruleIDs, noteLabels, noteRules,
                 noteColumns, calls, emitted, runs, passed>>

\* the noteStats row of the next run: the final status becomes currentLabel, the
\* emitted T' (missing if none was emitted) becomes the timestamp, and the
\* intercept is whatever the next run's model produces
FedBack(row, scored, intercept) ==
  [row EXCEPT !.currentLabel = scored.status,
              !.timestampMillisOfNmrDueToMinStableCrhTime =
                 IF updatedTimestampMillisOfNmrDueToMinStableCrhTimeKey \in DOMAIN scored.vals
                   THEN scored.vals[updatedTimestampMillisOfNmrDueToMinStableCrhTimeKey]
                   ELSE <<>>,
              !.internalNoteIntercept = <<intercept>>]

\* the caller starts the next scoring run on the output of a completed run of
\* RunRules, at a clock value that is not earlier
FeedBack ==
  /\ pc = "done"
  /\ rules = RunRules
  /\ Len(runs) + 1 < MaxRuns
  /\ \E step \in ClockSteps : epochMillis' = epochMillis + step
  /\ \E intercepts \in [1..Len(noteStats) -> {20, 50}] :
       noteStats' = [i \in 1..Len(noteStats) |->
                       FedBack(noteStats[i], scoredNotes[i], intercepts[i])]
  /\ runs' = Append(runs, [epochMillis |-> epochMillis, noteStats |-> noteStats,
                           emitted |-> emitted, scoredNotes |-> scoredNotes])
  /\ rules' = <<>>
  /\ Becomes(InitialState)
  /\ scoredNotes' = <<>>
  /\ passed' = noteStats'
  /\ UNCHANGED <<catalog, decidedByColumn>>

Next == ApplyRule \/ Finalize

Spec == Init /\ [][Next]_vars

SpecExtras == InitExtras /\ [][Next]_vars

SpecStable == InitStable /\ [][Next]_vars

SpecReject == InitReject /\ [][Next]_vars

SpecRepeated == InitRepeated /\ [][Next]_vars

SpecAny == InitAny /\ [][Next]_vars

SpecFrame == InitFrame /\ [][Next]_vars

SpecModel == InitModel /\ [][Next]_vars

SpecFilter == InitFilter /\ [][Next]_vars

SpecTags == InitTags /\ [][Next]_vars

SpecGroup == InitGroup /\ [][Next]_vars

SpecInertia == InitInertia /\ [][Next]_vars

SpecFunction == InitFunction /\ [][Next]_vars

SpecTopic == InitTopic /\ [][Next]_vars

SpecExplain == InitExplain /\ [][Next]_vars

SpecIncorrect == InitIncorrect /\ [][Next]_vars

SpecReaders == InitReaders /\ [][Next]_vars

NextRuns == ApplyRule \/ Finalize \/ FeedBack

SpecRuns == InitRuns /\ [][NextRuns]_vars

(***************************************************************************)
(* Properties.  emitted[k] is what the k-th rule of the list returned; in  *)
(* a run that has not raised, emitted[k] belongs to rules[k].              *)
(***************************************************************************)
ClosedStatuses == {currentlyRatedHelpful, currentlyRatedNotHelpful, needsMoreRatings}

\* the positions of the rules that emitted an update for note n, in history h
Emitters(h, n) == {k \in 1..Len(h) : n \in NoteIdSet(h[k].updates)}

\* the highest-index rule that emitted an update for n
LastEmitter(h, n) == CHOOSE k \in Emitters(h, n) : \A j \in Emitters(h, n) : j <= k

\* the status in the last update row for n that the k-th rule emitted
EmittedStatus(h, k, n) ==
  LET u == h[k].updates
      last == CHOOSE i \in 1..Len(u) :
                /\ u[i].noteId = n
                /\ \A j \in (i + 1)..Len(u) : u[j].noteId # n
  IN u[last].status

Completed == pc = "done"

\* C1 as stated: every status of the returned table is CRH, CRNH or NMR (the
\* driver rewrites FIRM_REJECT to NMR before returning).
C1_ClosedOutput ==
  Completed => \A i \in 1..Len(scoredNotes) : scoredNotes[i].status \in ClosedStatuses

\* C1 amended: the driver rewrites nothing, so a note whose last update was
\* FIRM_REJECT is returned as FIRM_REJECT; ApplyModelResult rewrites FIRM_REJECT to
\* NMR and asserts the closed set, so a note last updated by an ApplyModelResult
\* rule is returned as CRH, CRNH or NMR.
C1_FirmRejectOnlyFromLastWriter ==
  Completed =>
    \A i \in 1..Len(scoredNotes) :
      LET row == scoredNotes[i]
          k == LastEmitter(emitted, row.noteId)
      IN /\ EmittedStatus(emitted, k, row.noteId) = firmReject => row.status = firmReject
         /\ rules[k].kind = "ApplyModelResult" => row.status \in ClosedStatuses

C1_Witness ==
  /\ Completed
  /\ \E i \in 1..Len(scoredNotes) : scoredNotes[i].status = firmReject
  /\ \E i \in 1..Len(scoredNotes) :
       /\ rules[LastEmitter(emitted, scoredNotes[i].noteId)].kind = "ApplyModelResult"
       /\ scoredNotes[i].noteStats.coreRatingStatus = firmReject
       /\ scoredNotes[i].status = needsMoreRatings

\* C2: for a table with unique noteIds and a rule list that starts with a
\* DefaultRule, the coverage assertions never fire and the returned table has
\* exactly one row per input note, in input order.
C2_Coverage ==
  (UniqueNoteIds(noteStats) /\ Len(rules) >= 1 /\ rules[1].kind = "DefaultRule") =>
    /\ pc = "failed" => error \notin {"MissingLabels", "MissingRules"}
    /\ Completed =>
         /\ Len(scoredNotes) = Len(noteStats)
         /\ \A i \in 1..Len(noteStats) : scoredNotes[i].noteId = noteStats[i].noteId

C2_Witness ==
  /\ Completed
  /\ Len(rules) >= 2
  /\ rules[1].kind = "DefaultRule"
  /\ Len(noteStats) >= 2
  /\ UniqueNoteIds(noteStats)
  /\ NoteIdSet(scoredNotes) = NoteIdSet(noteStats)

\* C3: last writer wins: at every point of the run the label of a note is the
\* status emitted for it by the highest-index rule that emitted an update for it,
\* and so is its status in the returned table.
C3_LastWriterWins ==
  /\ pc # "failed" =>
       \A i \in 1..Len(noteLabels) :
         noteLabels[i].status
           = EmittedStatus(emitted, LastEmitter(emitted, noteLabels[i].noteId),
                           noteLabels[i].noteId)
  /\ Completed =>
       \A i \in 1..Len(scoredNotes) :
         scoredNotes[i].status
           = EmittedStatus(emitted, LastEmitter(emitted, scoredNotes[i].noteId),
                           scoredNotes[i].noteId)

C3_Witness ==
  /\ Completed
  /\ \E i \in 1..Len(scoredNotes) :
       LET n == scoredNotes[i].noteId
       IN \E j, k \in Emitters(emitted, n) :
            /\ j < k
            /\ k = LastEmitter(emitted, n)
            /\ EmittedStatus(emitted, j, n) # EmittedStatus(emitted, k, n)
            /\ scoredNotes[i].status = EmittedStatus(emitted, k, n)

\* the emitters of n in increasing order
EmitterList(h, n) == Sorted(Emitters(h, n))

\* C4: for input with unique noteIds, the rule column of every returned note is
\* the display names "<name> (v<version>)" of exactly the rules that emitted an
\* update for it, in rule-list order, separated by commas; it is never empty.
C4_RuleColumn ==
  (Completed /\ UniqueNoteIds(noteStats)) =>
    \A i \in 1..Len(scoredNotes) :
      LET tokens == scoredNotes[i].activeRules
          who == EmitterList(emitted, scoredNotes[i].noteId)
      IN /\ Len(who) >= 1
         /\ Len(tokens) = 2 * Len(who) - 1
         /\ \A m \in 1..Len(who) :
              LET id == RuleID[rules[who[m]].ruleID]
              IN tokens[2 * m - 1] = id.ruleName \o " (v" \o id.ruleVersion \o ")"
         /\ \A m \in 1..(Len(who) - 1) : tokens[2 * m] = ","

C4_Witness ==
  /\ Completed
  /\ Len(rules) = 3
  /\ \E i \in 1..Len(scoredNotes) :
       /\ Emitters(emitted, scoredNotes[i].noteId) = {1, 3}
       /\ Len(scoredNotes[i].activeRules) = 3

\* the last comma-separated token of a joined string
LastToken(tokens) ==
  LET commas == {i \in 1..Len(tokens) : tokens[i] = ","}
      start == IF commas = {} THEN 1
               ELSE 1 + CHOOSE i \in commas : \A j \in commas : j <= i
  IN SubSeq(tokens, start, Len(tokens))

\* C5: when the decidedBy column is requested, decidedBy of every returned note is
\* the last token of its rule column and is the display name of the highest-index
\* rule that emitted an update for the note, the rule whose status is final.
C5_DecidedBy ==
  (Completed /\ decidedByColumn) =>
    \A i \in 1..Len(scoredNotes) :
      LET row == scoredNotes[i]
          k == LastEmitter(emitted, row.noteId)
          id == RuleID[rules[k].ruleID]
      IN /\ <<row.decidedBy>> = LastToken(row.activeRules)
         /\ row.decidedBy = id.ruleName \o " (v" \o id.ruleVersion \o ")"
         /\ row.status = EmittedStatus(emitted, k, row.noteId)

C5_Witness ==
  /\ Completed
  /\ decidedByColumn
  /\ \E i \in 1..Len(scoredNotes) :
       /\ Cardinality(Emitters(emitted, scoredNotes[i].noteId)) >= 2
       /\ LastEmitter(emitted, scoredNotes[i].noteId) < Len(rules)
       /\ scoredNotes[i].decidedBy # "InitialNMR (v1.0)"

\* the RuleIDs of the rules before position k of the list
RanBefore(k) == {rules[j].ruleID : j \in 1..(k - 1)}

\* C6: a rule with a dependency that is not among the rules that ran strictly
\* before it (itself and rules later in the list included) makes the run fail at
\* that rule, before its score_notes is called, and nothing is returned.
C6_DependencyViolation ==
  \A k \in 1..Len(rules) :
    ~(rules[k].dependencies \subseteq RanBefore(k)) =>
      /\ k = Len(rules)
      /\ pc = "failed"
      /\ error = "DependencyViolation"
      /\ calls = [j \in 1..(k - 1) |-> rules[j].ruleID]
      /\ Len(emitted) = k - 1
      /\ scoredNotes = <<>>

C6_Witness ==
  /\ pc = "failed"
  /\ error = "DependencyViolation"
  /\ Len(rules) = 2
  /\ rules[2].ruleID \in rules[2].dependencies
  /\ calls = <<rules[1].ruleID>>

\* C7: a RuleID that already ran makes the run fail at its second occurrence,
\* before that rule scores any note; in a run that has not failed the RuleIDs of
\* the applied rules are pairwise different.
C7_DuplicateRule ==
  /\ \A k \in 1..Len(rules) :
       rules[k].ruleID \in RanBefore(k) =>
         /\ k = Len(rules)
         /\ pc = "failed"
         /\ error = "DuplicateRule"
         /\ calls = [j \in 1..(k - 1) |-> rules[j].ruleID]
         /\ scoredNotes = <<>>
  /\ pc # "failed" =>
       /\ \A j, k \in 1..Len(rules) : rules[j].ruleID = rules[k].ruleID => j = k
       /\ ruleIDs = RanBefore(Len(rules) + 1)
       /\ Cardinality(ruleIDs) = Len(rules)

C7_Witness ==
  /\ pc = "failed"
  /\ error = "DuplicateRule"
  /\ Len(rules) = 3
  /\ rules[3].ruleID = rules[1].ruleID
  /\ Len(calls) = 2

\* the extras of the k-th emission cover other notes than its updates
ExtrasDiffer(k) ==
  /\ emitted[k].extras # None
  /\ NoteIdSet(emitted[k].extras.rows) # NoteIdSet(emitted[k].updates)

\* C8: a rule whose RuleID is not NMR_DUE_TO_MIN_STABLE_CRH_TIME and whose extras
\* cover other notes than its updates makes the run fail at that rule; a rule with
\* RuleID NMR_DUE_TO_MIN_STABLE_CRH_TIME may return such extras: the run does not
\* fail on them, and the extras are merged into the accumulated columns.
C8_ExtrasMatchUpdates ==
  /\ \A k \in 1..Len(emitted) :
       (ExtrasDiffer(k) /\ emitted[k].ruleID # "NMR_DUE_TO_MIN_STABLE_CRH_TIME") =>
         /\ k = Len(emitted)
         /\ pc = "failed"
         /\ error = "ExtrasMismatch"
         /\ scoredNotes = <<>>
  /\ \A k \in 1..Len(emitted) :
       (ExtrasDiffer(k) /\ emitted[k].ruleID = "NMR_DUE_TO_MIN_STABLE_CRH_TIME") =>
         /\ k = Len(emitted) => ~(pc = "failed" /\ error = "ExtrasMismatch")
         /\ (k = Len(emitted) /\ pc # "failed") =>
              NoteIdSet(emitted[k].extras.rows) \subseteq NoteIdSet(noteColumns.rows)
  /\ (pc = "failed" /\ error = "ExtrasMismatch") => ExtrasDiffer(Len(emitted))

C8_Witness ==
  /\ pc = "failed"
  /\ error = "ExtrasMismatch"
  /\ Len(emitted) = 3
  /\ emitted[2].ruleID = "NMR_DUE_TO_MIN_STABLE_CRH_TIME"
  /\ ExtrasDiffer(2)
  /\ emitted[3].ruleID = "GENERAL_CRH_INERTIA"
  /\ ExtrasDiffer(3)

\* the rule list with the rules at positions j and k exchanged
Swapped(ruleList, j, k) ==
  [i \in 1..Len(ruleList) |->
     IF i = j THEN ruleList[k] ELSE IF i = k THEN ruleList[j] ELSE ruleList[i]]

\* the run of the same table with the rules at positions j and k exchanged
SwappedRun(j, k) == apply_scoring_rules(noteStats, Swapped(rules, j, k), decidedByColumn)

\* the rules at positions k and k + 1 are independent: neither declares the other
\* as a dependency, and in this run they emitted no update for the same note
Independent(k) ==
  /\ rules[k].ruleID \notin rules[k + 1].dependencies
  /\ rules[k + 1].ruleID \notin rules[k].dependencies
  /\ NoteIdSet(emitted[k].updates) \cap NoteIdSet(emitted[k + 1].updates) = {}

\* in the run out, with positions k and k + 1 exchanged, each of the two rules
\* emitted the updates and extras it emitted in this run
SameEmissions(out, k) ==
  /\ Len(out.emitted) >= k + 1
  /\ out.emitted[k] = emitted[k + 1]
  /\ out.emitted[k + 1] = emitted[k]

RuleColumnOf(scored, n) ==
  LET i == CHOOSE i \in 1..Len(scored) : scored[i].noteId = n
  IN scored[i].activeRules

\* C10: when two rules both emitted an update for a note n, the run with the two
\* rules exchanged, if it completes, returns a different rule column for n.
C10_SwapChangesAttribution ==
  Completed =>
    \A j, k \in 1..Len(rules) :
      (j < k /\ NoteIdSet(emitted[j].updates) \cap NoteIdSet(emitted[k].updates) # {}) =>
        LET out == SwappedRun(j, k)
        IN out.pc = "done" =>
             \A n \in NoteIdSet(emitted[j].updates) \cap NoteIdSet(emitted[k].updates) :
               RuleColumnOf(out.scoredNotes, n) # RuleColumnOf(scoredNotes, n)

C10_Witness ==
  /\ Completed
  /\ Len(rules) = 3
  /\ \E n \in NoteIdSet(emitted[2].updates) \cap NoteIdSet(emitted[3].updates) :
       /\ SwappedRun(2, 3).pc = "done"
       /\ Len(RuleColumnOf(SwappedRun(2, 3).scoredNotes, n)) = 5
       /\ RuleColumnOf(SwappedRun(2, 3).scoredNotes, n) # RuleColumnOf(scoredNotes, n)

\* the status of note n after the first k rules of history h; NaN if none of them
\* emitted an update for n
StatusAfter(h, k, n) ==
  LET before == SubSeq(h, 1, k)
  IN IF Emitters(before, n) = {} THEN NaN
     ELSE EmittedStatus(before, LastEmitter(before, n), n)

\* the rows of the extras of the k-th emission that belong to note n
ExtrasRows(h, k, n) ==
  IF h[k].extras = None THEN <<>>
  ELSE Rows(h[k].extras.rows, LAMBDA i : h[k].extras.rows[i].noteId = n, 1)

\* the positions of the NmrDueToMinStableCrhTime rules that have returned
StableRuns == {k \in 1..Len(emitted) : rules[k].kind = "NmrDueToMinStableCrhTime"}

\* the notes rule k considers: labelled before it, previous-run label not CRH
Considered(k) ==
  {i \in 1..Len(noteStats) :
     /\ noteStats[i].currentLabel # currentlyRatedHelpful
     /\ StatusAfter(emitted, k - 1, noteStats[i].noteId) # NaN}

\* the table of C13: <<status, T'>> from statusNow, T, the clock and the threshold
\* in milliseconds; T' is <<>> where the rule writes none
StableTable(statusNow, t, now, threshold) ==
  IF statusNow = currentlyRatedHelpful /\ (t = <<>> \/ t[1] <= 0)
    THEN <<needsMoreRatings, <<now>>>>
  ELSE IF statusNow = currentlyRatedHelpful /\ now - t[1] >= threshold
    THEN <<currentlyRatedHelpful, <<-1>>>>
  ELSE IF statusNow = currentlyRatedHelpful
    THEN <<needsMoreRatings, t>>
  ELSE IF t # <<>> /\ t[1] > 0
    THEN <<statusNow, <<-1>>>>
  ELSE <<statusNow, <<>>>>

\* the timestamp T' the rule emitted for note n, <<>> if it emitted none
EmittedTimestamp(k, n) ==
  IF ExtrasRows(emitted, k, n) = <<>> THEN <<>>
  ELSE ExtrasRows(emitted, k, n)[1].vals[updatedTimestampMillisOfNmrDueToMinStableCrhTimeKey]

\* C13 as stated: the rule computes (status, T') by the table, and in the
\* 'otherwise' case (status not CRH, T missing or <= 0) T' is the unchanged T.
C13_StableCrhTableUnchanged ==
  \A k \in StableRuns :
    \A i \in Considered(k) :
      LET n == noteStats[i].noteId
          t == noteStats[i].timestampMillisOfNmrDueToMinStableCrhTime
          want == StableTable(StatusAfter(emitted, k - 1, n), t, epochMillis,
                              rules[k].requiredStableCrhMinutesThreshold * 60 * 1000)
      IN /\ StatusAfter(emitted, k, n) = want[1]
         /\ EmittedTimestamp(k, n) = IF want[2] = <<>> THEN t ELSE want[2]

\* C13 amended: for a note whose previous-run label is not CRH, NmrDueToMinStableCrhTime
\* leaves the status and writes the timestamp T' given by the table: CRH with T
\* missing or <= 0 gives (NMR, now); CRH, T > 0, now - T >= threshold gives
\* (CRH, -1), the boundary now - T = threshold included; CRH, T > 0,
\* now - T < threshold gives (NMR, T); not CRH with T > 0 gives (unchanged, -1);
\* otherwise the status is unchanged and the rule writes no timestamp.
C13_StableCrhTable ==
  \A k \in StableRuns :
    \A i \in Considered(k) :
      LET n == noteStats[i].noteId
          want == StableTable(StatusAfter(emitted, k - 1, n),
                              noteStats[i].timestampMillisOfNmrDueToMinStableCrhTime,
                              epochMillis,
                              rules[k].requiredStableCrhMinutesThreshold * 60 * 1000)
          key == updatedTimestampMillisOfNmrDueToMinStableCrhTimeKey
      IN /\ StatusAfter(emitted, k, n) = want[1]
         /\ ExtrasRows(emitted, k, n)
              = IF want[2] = <<>> THEN <<>> ELSE <<ColumnRow(n, (key :> want[2]))>>

C13_Witness ==
  /\ Completed
  /\ \E k \in StableRuns :
       \E i, j \in Considered(k) :
         /\ StatusAfter(emitted, k - 1, noteStats[i].noteId) = currentlyRatedHelpful
         /\ noteStats[i].timestampMillisOfNmrDueToMinStableCrhTime = <<Matured>>
         /\ scoredNotes[i].status = currentlyRatedHelpful
         /\ scoredNotes[i].vals[updatedTimestampMillisOfNmrDueToMinStableCrhTimeKey] = <<-1>>
         /\ StatusAfter(emitted, k - 1, noteStats[j].noteId) = currentlyRatedHelpful
         /\ noteStats[j].timestampMillisOfNmrDueToMinStableCrhTime = <<Matured + 1>>
         /\ scoredNotes[j].status = needsMoreRatings
         /\ scoredNotes[j].vals[updatedTimestampMillisOfNmrDueToMinStableCrhTimeKey]
              = <<Matured + 1>>

\* the notes rule k considers whose status before the rule is CRH
ConsideredHelpful(k) ==
  {i \in Considered(k) :
     StatusAfter(emitted, k - 1, noteStats[i].noteId) = currentlyRatedHelpful}

\* the notes rule k considers whose timestamp T is set (present and > 0)
ConsideredTimed(k) ==
  {i \in Considered(k) :
     /\ noteStats[i].timestampMillisOfNmrDueToMinStableCrhTime # <<>>
     /\ noteStats[i].timestampMillisOfNmrDueToMinStableCrhTime[1] > 0}

\* every status update of rule k flips a note from CRH to NMR
OnlyFlips(k) ==
  \A u \in 1..Len(emitted[k].updates) :
    /\ emitted[k].updates[u].status = needsMoreRatings
    /\ StatusAfter(emitted, k - 1, emitted[k].updates[u].noteId) = currentlyRatedHelpful
    /\ \E i \in Considered(k) : noteStats[i].noteId = emitted[k].updates[u].noteId

\* C14 as stated: the rule emits as status updates only notes that flip from CRH
\* to NMR, and a T' extras row for every note whose previous-run label is not CRH.
C14_ExtrasForAllConsidered ==
  \A k \in StableRuns :
    /\ OnlyFlips(k)
    /\ \A i \in Considered(k) : Len(ExtrasRows(emitted, k, noteStats[i].noteId)) = 1

\* C14 amended: the rule emits as status updates only notes that flip from CRH to
\* NMR, and one T' extras row for exactly the considered notes (labelled,
\* previous-run label not CRH) that are CRH now or have a timestamp T > 0; a
\* considered note that is not CRH and has T missing or <= 0 gets no extras row.
C14_ExtrasForSelected ==
  \A k \in StableRuns :
    /\ OnlyFlips(k)
    /\ NoteIdSet(emitted[k].extras.rows)
         = {noteStats[i].noteId : i \in ConsideredHelpful(k) \cup ConsideredTimed(k)}
    /\ \A i \in 1..Len(noteStats) : Len(ExtrasRows(emitted, k, noteStats[i].noteId)) <= 1

C14_Witness ==
  /\ Completed
  /\ \E k \in StableRuns :
       \E i, j \in Considered(k) :
         /\ noteStats[i].noteId \in NoteIdSet(emitted[k].updates)
         /\ noteStats[i].noteId \in NoteIdSet(emitted[k].extras.rows)
         /\ j \in ConsideredTimed(k) \ ConsideredHelpful(k)
         /\ noteStats[j].noteId \in NoteIdSet(emitted[k].extras.rows)
         /\ noteStats[j].noteId \notin NoteIdSet(emitted[k].updates)


\* the successive runs up to and including the one that has just returned
History ==
  Append(runs, [epochMillis |-> epochMillis, noteStats |-> noteStats,
                emitted |-> emitted, scoredNotes |-> scoredNotes])

\* a run of RunRules has returned
RunCompleted == pc = "done" /\ rules = RunRules

\* the status of the note of run r before the last rule, its final status, the
\* label of the previous run, and the timestamp read (T) and written (T')
Upstream(r) == StatusAfter(r.emitted, Len(r.emitted) - 1, r.noteStats[1].noteId)

Final(r) == r.scoredNotes[1].status

Previous(r) == r.noteStats[1].currentLabel

Read(r) == r.noteStats[1].timestampMillisOfNmrDueToMinStableCrhTime

Written(r) ==
  IF updatedTimestampMillisOfNmrDueToMinStableCrhTimeKey \in DOMAIN r.scoredNotes[1].vals
    THEN r.scoredNotes[1].vals[updatedTimestampMillisOfNmrDueToMinStableCrhTimeKey]
    ELSE <<>>

StableCrhMillis == RequiredStableCrhMinutes * 60 * 1000

\* the runs j..c of h all rated the note CRH before the last rule
HelpfulSince(h, j, c) == \A m \in j..c : Upstream(h[m]) = currentlyRatedHelpful

\* C15: over successive runs with a non-decreasing clock, NmrDueToMinStableCrhTime
\* last, and T' and the final status fed back as T and currentLabel: (a) a note
\* whose previous label is not CRH is reported CRH only if the rules before rated
\* it CRH in every run since a run whose clock value T > 0 was recorded, with
\* now - T >= requiredStableCrhMinutes*60*1000; (b) a run in which the note is not
\* CRH writes no positive T' and resets a set T to -1; (c) a note rated CRH in
\* every run since a run at least the threshold ago is reported CRH, hence stays
\* CRH in later runs.
C15_StableCrhAcrossRuns ==
  RunCompleted =>
    LET h == History
        c == Len(h)
        now == h[c]
    IN /\ (Previous(now) # currentlyRatedHelpful /\ Final(now) = currentlyRatedHelpful) =>
            \E j \in 1..(c - 1) :
              /\ h[j].epochMillis > 0
              /\ Read(now) = <<h[j].epochMillis>>
              /\ now.epochMillis - h[j].epochMillis >= StableCrhMillis
              /\ HelpfulSince(h, j, c)
       /\ Upstream(now) # currentlyRatedHelpful =>
            /\ ~TimestampSet(Written(now))
            /\ TimestampSet(Read(now)) => Written(now) = <<-1>>
       /\ (\E j \in 1..c : /\ HelpfulSince(h, j, c)
                           /\ now.epochMillis - h[j].epochMillis >= StableCrhMillis) =>
            Final(now) = currentlyRatedHelpful

\* third run: the note was rated CRH in all three runs, waited in the second and
\* is reported CRH in the third, the threshold having passed since the first
C15_Witness ==
  /\ RunCompleted
  /\ Len(runs) = 2
  /\ HelpfulSince(History, 1, 3)
  /\ Previous(runs[1]) = needsMoreRatings
  /\ Final(runs[1]) = needsMoreRatings
  /\ Final(runs[2]) = needsMoreRatings
  /\ Read(runs[2]) = <<runs[1].epochMillis>>
  /\ scoredNotes[1].status = currentlyRatedHelpful

\* a run resets a timestamp recorded by the run before it
C15_ResetReached ==
  /\ RunCompleted
  /\ Len(runs) >= 1
  /\ TimestampSet(noteStats[1].timestampMillisOfNmrDueToMinStableCrhTime)
  /\ Upstream(History[Len(History)]) # currentlyRatedHelpful


\* the positions of the ScoringDriftGuard rules that have returned
GuardRuns == {k \in 1..Len(emitted) : rules[k].kind = "ScoringDriftGuard"}

\* the locked status of note n in the table of the rule, NaN if it has none
LockedStatusOf(rule, n) ==
  LET present == {i \in 1..Len(rule.lockedStatus) :
                    /\ rule.lockedStatus[i].noteId = n
                    /\ rule.lockedStatus[i].lockedStatus # NaN}
  IN IF present = {} THEN NaN ELSE rule.lockedStatus[CHOOSE i \in present : TRUE].lockedStatus

\* the notes labelled before rule k whose locked status is present and differs
\* from the status they have then
Drifted(k) ==
  {n \in NoteIdSet(noteStats) :
     /\ StatusAfter(emitted, k - 1, n) # NaN
     /\ LockedStatusOf(rules[k], n) # NaN
     /\ LockedStatusOf(rules[k], n) # StatusAfter(emitted, k - 1, n)}

\* the rows of the attribution table that name note n and the rule
Attributed(n, name) == {i \in 1..Len(noteRules) : noteRules[i] = [noteId |-> n, rule |-> name]}

\* C16: ScoringDriftGuard updates exactly the labelled notes whose locked status
\* is present and differs from the current status, to the locked status, with one
\* extras row whose unlockedRatingStatus is the status before the override; every
\* other note gets no update, no attribution and no extras row; and when the
\* guard is the last rule of a run that returns, every labelled note with a
\* present locked status ends with its locked status.
C16_DriftGuard ==
  \A k \in GuardRuns :
    /\ \A n \in Drifted(k) :
         /\ EmittedStatus(emitted, k, n) = LockedStatusOf(rules[k], n)
         /\ Len(ExtrasRows(emitted, k, n)) = 1
         /\ ExtrasRows(emitted, k, n)[1].vals[unlockedRatingStatusKey]
              = <<StatusAfter(emitted, k - 1, n)>>
         /\ (k = Len(emitted) /\ pc = "running") =>
              /\ StatusAfter(emitted, k, n) = LockedStatusOf(rules[k], n)
              /\ Attributed(n, get_name(rules[k].ruleID)) # {}
    /\ \A n \in NoteIdSet(noteStats) \ Drifted(k) :
         /\ n \notin NoteIdSet(emitted[k].updates)
         /\ ExtrasRows(emitted, k, n) = <<>>
         /\ Attributed(n, get_name(rules[k].ruleID)) = {}
    /\ (Completed /\ k = Len(rules)) =>
         \A i \in 1..Len(scoredNotes) :
           LockedStatusOf(rules[k], scoredNotes[i].noteId) # NaN =>
             scoredNotes[i].status = LockedStatusOf(rules[k], scoredNotes[i].noteId)

\* the guard ran last in a run that returned: note 1 was NMR and is overridden to
\* its locked CRH with unlockedRatingStatus NMR; note 2 has no locked status
C16_Witness ==
  /\ Completed
  /\ GuardRuns = {Len(rules)}
  /\ Drifted(Len(rules)) = {1}
  /\ NoteIdSet(noteStats) = {1, 2}
  /\ \E i \in 1..Len(scoredNotes) :
       /\ scoredNotes[i].noteId = 1
       /\ scoredNotes[i].status = currentlyRatedHelpful
       /\ scoredNotes[i].vals[unlockedRatingStatusKey] = <<needsMoreRatings>>

\* the guard leaves alone a note whose status equals its locked status
C16_EqualReached ==
  \E k \in GuardRuns :
    /\ StatusAfter(emitted, k - 1, 1) = currentlyRatedHelpful
    /\ Drifted(k) = {}


\* the noteStats row of note n (noteIds are not repeated where this is used)
StatsOf(n) == noteStats[CHOOSE i \in 1..Len(noteStats) : noteStats[i].noteId = n]

\* rule k promotes note n: it emits CRH for it
Promotes(k, n) ==
  /\ n \in NoteIdSet(emitted[k].updates)
  /\ EmittedStatus(emitted, k, n) = currentlyRatedHelpful

\* the selection of a CRH-assigning rule over the noteStats row alone
SelectsHelpful(rule, row) ==
  CASE rule.kind = "RuleFromFunction" ->
         /\ rule.status = currentlyRatedHelpful
         /\ Gt(row.internalNoteIntercept, rule.threshold)
         /\ rule.onlyApplyToNotesThatSayTweetIsMisleading
              => row.classification # noteSaysTweetIsNotMisleadingKey
    [] rule.kind = "AddCRHInertia" ->
         /\ rule.status = currentlyRatedHelpful
         /\ Ge(row.numRatings, rule.minRatingsNeeded)
         /\ Ge(row.internalNoteIntercept, rule.threshold)
         /\ row.currentLabel = currentlyRatedHelpful
         /\ row.classification # noteSaysTweetIsNotMisleadingKey
    [] rule.kind = "ApplyModelResult" ->
         /\ row[rule.sourceColumn] = currentlyRatedHelpful
         /\ \A p \in 1..Len(rule.filterColumnPairs) :
              row[rule.filterColumnPairs[p][1]] = rule.filterColumnPairs[p][2]
         /\ rule.checkFirmReject =>
              ~(\/ row.coreRatingStatus \in {firmReject, currentlyRatedNotHelpful}
                \/ /\ row.coreRatingStatus = NaN
                   /\ row.expansionRatingStatus \in {firmReject, currentlyRatedNotHelpful})
    [] OTHER -> FALSE

C17_BlockedReached ==
  \E k \in 1..Len(emitted) :
    /\ rules[k].kind = "ApplyModelResult"
    /\ rules[k].checkFirmReject
    /\ StatusAfter(emitted, k - 1, 1) = firmReject
    /\ StatsOf(1).expansionRatingStatus = currentlyRatedHelpful
    /\ ~Promotes(k, 1)


\* rule j is a RejectLowIntercept that set note n to FIRM_REJECT, and n still
\* has that status when rule k, an ApplyModelResult, runs
RejectedThenApplied(j, k, n) ==
  /\ j < k
  /\ rules[j].kind = "RejectLowIntercept"
  /\ n \in NoteIdSet(emitted[j].updates)
  /\ EmittedStatus(emitted, j, n) = firmReject
  /\ StatusAfter(emitted, k - 1, n) = firmReject
  /\ rules[k].kind = "ApplyModelResult"

\* the status ApplyModelResult leaves on a FIRM_REJECT note with noteStats row
\* row: the source status with FIRM_REJECT rewritten to NMR, or FIRM_REJECT when
\* the source is missing, filtered out, or a CRH that checkFirmReject blocks
StatusApplied(rule, row) ==
  LET src == row[rule.sourceColumn]
      blocked ==
        /\ rule.checkFirmReject
        /\ src = currentlyRatedHelpful
        /\ \/ row.coreRatingStatus \in {firmReject, currentlyRatedNotHelpful}
           \/ /\ row.coreRatingStatus = NaN
              /\ row.expansionRatingStatus \in {firmReject, currentlyRatedNotHelpful}
      filtered == \E p \in 1..Len(rule.filterColumnPairs) :
                    row[rule.filterColumnPairs[p][1]] # rule.filterColumnPairs[p][2]
  IN IF src = NaN \/ blocked \/ filtered THEN firmReject
     ELSE IF src = firmReject THEN needsMoreRatings
     ELSE src

\* an ApplyModelResult rule raised its assertion on the statuses
ApplyAssertionFailed ==
  /\ pc = "failed"
  /\ error = "RuleAssertion"
  /\ rules[Len(rules)].kind = "ApplyModelResult"

\* C18 as stated: when RejectLowIntercept set a note to FIRM_REJECT and an
\* ApplyModelResult rule ran afterwards, the run returns NMR for the note and the
\* rule's assertion holds.
C18_RejectedEndsNmr ==
  /\ ~ApplyAssertionFailed
  /\ Completed =>
       \A j, k \in 1..Len(emitted) : \A i \in 1..Len(scoredNotes) :
         (RejectedThenApplied(j, k, scoredNotes[i].noteId) /\ k = Len(rules)) =>
           scoredNotes[i].status = needsMoreRatings

\* C18 (amended): ApplyModelResult copies its source column and not the label.
\* When RejectLowIntercept set a note to FIRM_REJECT, the note still has that
\* status and an ApplyModelResult rule runs last, the rule's assertion holds and
\* the final status is the note's source status with FIRM_REJECT rewritten to
\* NMR; it stays FIRM_REJECT when the source status is missing or is a CRH that
\* checkFirmReject blocks.
C18_RejectedThenSourceCopied ==
  /\ ~ApplyAssertionFailed
  /\ \A j, k \in 1..Len(emitted) : \A n \in NoteIdSet(noteStats) :
       RejectedThenApplied(j, k, n) =>
         /\ (k < Len(emitted) \/ pc # "failed") =>
              StatusAfter(emitted, k, n) = StatusApplied(rules[k], StatsOf(n))
         /\ (Completed /\ k = Len(rules)) =>
              \A i \in 1..Len(scoredNotes) :
                scoredNotes[i].noteId = n =>
                  scoredNotes[i].status = StatusApplied(rules[k], StatsOf(n))

\* [INITIAL_NMR, LOW_INTERCEPT, CORE_MODEL] returned: the note was set to
\* FIRM_REJECT, its coreRatingStatus is FIRM_REJECT, and its final status is NMR
C18_Witness ==
  /\ Completed
  /\ Len(rules) = 3
  /\ RejectedThenApplied(2, 3, 1)
  /\ StatsOf(1)[rules[3].sourceColumn] = firmReject
  /\ scoredNotes[1].status = needsMoreRatings

\* the same list on a note without a coreRatingStatus returns FIRM_REJECT
C18_KeptReached ==
  /\ Completed
  /\ Len(rules) = 3
  /\ RejectedThenApplied(2, 3, 1)
  /\ StatsOf(1)[rules[3].sourceColumn] = NaN
  /\ scoredNotes[1].status = firmReject


\* the status updates of the k-th emission name some noteId more than once
RepeatsNoteId(k) == ~UniqueNoteIds(emitted[k].updates)

\* the rows of noteStats FilterLowDiligence would update, given the labels
\* before it: not CRNH, low diligence intercept above the threshold
Impacted(rule, labelsBefore) ==
  {i \in 1..Len(noteStats) :
     /\ StatusAfter(labelsBefore, Len(labelsBefore), noteStats[i].noteId)
          \notin {NaN, currentlyRatedNotHelpful}
     /\ Gt(noteStats[i].lowDiligenceNoteIntercept, rule.interceptThreshold)}

\* C19 as stated: a run in which some rule's status updates repeat a noteId does
\* not return.
C19_RepeatedUpdateFails == Completed => \A k \in 1..Len(emitted) : ~RepeatsNoteId(k)

\* C19 (amended): the driver has no check on repeated noteIds in a rule's status
\* updates.  FilterLowDiligence asserts that its own updates repeat none, and
\* the run fails on it when two impacted rows share a noteId; DefaultRule,
\* RuleFromFunction and ApplyModelResult return one update per selected row, and
\* when such updates repeat a noteId the driver keeps the last status for it and
\* a run that reaches the end returns one scored row per input row, each with the
\* last status of its noteId.
C19_RepeatedUpdateKept ==
  /\ \A k \in 1..Len(emitted) : RepeatsNoteId(k) => rules[k].kind # "FilterLowDiligence"
  /\ (pc = "failed" /\ error = "RuleAssertion") <=>
       /\ Len(calls) = Len(emitted) + 1
       /\ rules[Len(rules)].kind = "FilterLowDiligence"
       /\ \E i, j \in Impacted(rules[Len(rules)], emitted) :
            i # j /\ noteStats[i].noteId = noteStats[j].noteId
  /\ \A k \in 1..Len(emitted) :
       (RepeatsNoteId(k) /\ ~(k = Len(emitted) /\ pc = "failed")) =>
         \A n \in NoteIdSet(emitted[k].updates) :
           /\ StatusAfter(emitted, k, n) = EmittedStatus(emitted, k, n)
           /\ k = Len(emitted) =>
                Cardinality({i \in 1..Len(noteLabels) : noteLabels[i].noteId = n}) = 1
  /\ error # "RowCount"
  /\ Completed =>
       /\ Len(scoredNotes) = Len(noteStats)
       /\ \A i \in 1..Len(scoredNotes) :
            /\ scoredNotes[i].noteStats = noteStats[i]
            /\ scoredNotes[i].status
                 = StatusAfter(emitted, Len(emitted), noteStats[i].noteId)

\* [INITIAL_NMR] returned on a table whose two rows share noteId 1: the rule's
\* updates name the note twice, and the scored table has both rows
C19_Witness ==
  /\ Completed
  /\ Len(noteStats) = 2
  /\ noteStats[1].noteId = noteStats[2].noteId
  /\ RepeatsNoteId(1)
  /\ Len(scoredNotes) = 2

\* FilterLowDiligence fails on a table whose two impacted rows share a noteId
C19_AssertedReached ==
  /\ pc = "failed"
  /\ error = "RuleAssertion"
  /\ rules[Len(rules)].kind = "FilterLowDiligence"
  /\ ~UniqueNoteIds(noteStats)


\* the input notes that no rule of the run has updated
NeverUpdated == {n \in NoteIdSet(noteStats) : Emitters(emitted, n) = {}}

\* the noteIds of accumulated extras rows that are not in the input
OutsideInput == NoteIdSet(noteColumns.rows) \ NoteIdSet(noteStats)

\* C20: a run in which some input note was updated by no rule, or in which an
\* extras row names a noteId that is not in the input, does not return: it fails
\* on one of the assertions after the loop, with no scored table; a table that is
\* returned has every input note, each with a status.
C20_UncoveredFails ==
  /\ Completed =>
       /\ NeverUpdated = {}
       /\ OutsideInput = {}
       /\ NoteIdSet(scoredNotes) = NoteIdSet(noteStats)
       /\ \A i \in 1..Len(scoredNotes) : scoredNotes[i].status # NaN
  /\ (pc = "failed" /\ error \in {"MissingLabels", "MissingRules", "ColumnsNotInInput"}) =>
       /\ scoredNotes = <<>>
       /\ \/ NeverUpdated # {}
          \/ OutsideInput # {}
          \/ NoteIdSet(noteLabels) \ NoteIdSet(noteStats) # {}
  /\ (pc = "failed" /\ error = "ColumnsNotInInput") => OutsideInput # {}

\* the list has no DefaultRule and its only rule updates note 1: the run on a
\* table with notes 1 and 2 fails after the loop because note 2 has no label
C20_Witness ==
  /\ pc = "failed"
  /\ error = "MissingLabels"
  /\ \A k \in 1..Len(rules) : rules[k].kind # "DefaultRule"
  /\ Len(emitted) = Len(rules)
  /\ Len(rules) >= 1
  /\ NoteIdSet(noteStats) = {1, 2}
  /\ NeverUpdated = {2}
  /\ scoredNotes = <<>>

\* every note is labelled and an extras row names a note outside the input: the
\* run fails on the third assertion
C20_OutsideReached ==
  /\ pc = "failed"
  /\ error = "ColumnsNotInInput"
  /\ NeverUpdated = {}
  /\ OutsideNoteId \in OutsideInput


\* the positions of the rules whose score_notes has been called
CalledRules == 1..Len(calls)

\* row i of noteStats is row i of the table passed in, the top tags aside
SameButTopTags(i) ==
  [noteStats[i] EXCEPT !.firstTag = passed[i].firstTag,
                       !.secondTag = passed[i].secondTag] = passed[i]

\* the labels rule k was called with
LabelBefore(k, n) == StatusAfter(emitted, k - 1, n)

C21_BooleanColumns ==
  Completed =>
    \A i \in 1..Len(scoredNotes) :
      /\ scoredNotes[i].currentlyRatedHelpfulBool
           <=> scoredNotes[i].status = currentlyRatedHelpful
      /\ scoredNotes[i].currentlyRatedNotHelpfulBool
           <=> scoredNotes[i].status = currentlyRatedNotHelpful
      /\ scoredNotes[i].awaitingMoreRatingsBool
           <=> scoredNotes[i].status = needsMoreRatings

\* a returned table with a CRH row, whose only true column is the first, and a
\* FIRM_REJECT row, whose three columns are all false
C21_Witness ==
  /\ Completed
  /\ Len(scoredNotes) = 2
  /\ scoredNotes[1].status = currentlyRatedHelpful
  /\ scoredNotes[1].currentlyRatedHelpfulBool
  /\ ~scoredNotes[1].awaitingMoreRatingsBool
  /\ scoredNotes[2].status = firmReject
  /\ ~scoredNotes[2].currentlyRatedHelpfulBool
  /\ ~scoredNotes[2].currentlyRatedNotHelpfulBool
  /\ ~scoredNotes[2].awaitingMoreRatingsBool


\* the positions of the ApplyModelResult rules that have returned
ModelRuns == {k \in 1..Len(emitted) : rules[k].kind = "ApplyModelResult"}

\* the source status of note n for the rule
SourceStatus(rule, n) == StatsOf(n)[rule.sourceColumn]

\* blocked: coreRatingStatus is FIRM_REJECT or CRNH, or it is missing and
\* expansionRatingStatus is FIRM_REJECT or CRNH
Blocked(n) ==
  \/ StatsOf(n).coreRatingStatus \in {firmReject, currentlyRatedNotHelpful}
  \/ /\ StatsOf(n).coreRatingStatus = NaN
     /\ StatsOf(n).expansionRatingStatus \in {firmReject, currentlyRatedNotHelpful}

\* the note passes every filter column pair of the rule
PassesFilters(rule, n) ==
  \A p \in 1..Len(rule.filterColumnPairs) :
    StatsOf(n)[rule.filterColumnPairs[p][1]] = rule.filterColumnPairs[p][2]

\* the rule withholds the note: checkFirmReject is set, the source is CRH and
\* the note is blocked
Withheld(rule, n) ==
  rule.checkFirmReject /\ SourceStatus(rule, n) = currentlyRatedHelpful /\ Blocked(n)

\* the status the rule emits for a source status
Propagated(status) == IF status = firmReject THEN needsMoreRatings ELSE status

\* C22 as stated: with checkFirmReject set, a blocked note whose source is CRH
\* gets no update, and every other note with a source status gets an update
\* that carries that source status.
C22_BlockedHelpfulWithheld ==
  \A k \in ModelRuns : \A n \in NoteIdSet(noteStats) :
    rules[k].checkFirmReject =>
      /\ Withheld(rules[k], n) => n \notin NoteIdSet(emitted[k].updates)
      /\ (~Withheld(rules[k], n) /\ SourceStatus(rules[k], n) # NaN) =>
           /\ n \in NoteIdSet(emitted[k].updates)
           /\ EmittedStatus(emitted, k, n) = SourceStatus(rules[k], n)

\* C22 (amended): with checkFirmReject set, a blocked note whose source is CRH
\* gets no update and no attribution; every other note with a source status
\* that passes the rule's filter column pairs gets an update with its source
\* status, FIRM_REJECT being emitted as NMR; a note that fails a filter column
\* pair gets none.
C22_BlockedHelpfulWithheldFiltered ==
  \A k \in ModelRuns : \A n \in NoteIdSet(noteStats) :
    rules[k].checkFirmReject =>
      /\ Withheld(rules[k], n) =>
           /\ n \notin NoteIdSet(emitted[k].updates)
           /\ Attributed(n, get_name(rules[k].ruleID)) = {}
      /\ (~Withheld(rules[k], n) /\ SourceStatus(rules[k], n) # NaN
            /\ PassesFilters(rules[k], n)) =>
           /\ n \in NoteIdSet(emitted[k].updates)
           /\ EmittedStatus(emitted, k, n) = Propagated(SourceStatus(rules[k], n))
      /\ ~PassesFilters(rules[k], n) => n \notin NoteIdSet(emitted[k].updates)

\* EXPANSION_MODEL ran with the check on a note whose expansion status is CRH
\* and whose core status is CRNH: no update, the note keeps the default NMR
C22_Witness ==
  /\ Completed
  /\ Len(rules) = 2
  /\ rules[1].kind = "DefaultRule"
  /\ rules[2].ruleID = "EXPANSION_MODEL"
  /\ Withheld(rules[2], 1)
  /\ StatsOf(1).coreRatingStatus = currentlyRatedNotHelpful
  /\ emitted[2].updates = <<>>
  /\ scoredNotes[1].status = needsMoreRatings

\* a blocked note whose source is CRNH is updated by the checking rule
C22_BlockedPropagatedReached ==
  \E k \in ModelRuns :
    /\ rules[k].checkFirmReject
    /\ Blocked(1)
    /\ SourceStatus(rules[k], 1) = currentlyRatedNotHelpful
    /\ 1 \in NoteIdSet(emitted[k].updates)


\* the rows ApplyModelResult keeps after the firm-reject check and the filter
\* column pairs
Kept(rule, n) == ~Withheld(rule, n) /\ PassesFilters(rule, n)

\* the status of note n in the labels the loop holds now, NaN if it has none
CurrentLabel(n) ==
  IF \E i \in 1..Len(noteLabels) : noteLabels[i].noteId = n
  THEN noteLabels[CHOOSE i \in 1..Len(noteLabels) : noteLabels[i].noteId = n].status
  ELSE NaN

\* the last rule called is an ApplyModelResult whose assertion failed
ModelRuleFailed ==
  /\ pc = "failed"
  /\ error = "RuleAssertion"
  /\ Len(calls) = Len(emitted) + 1
  /\ rules[Len(rules)].kind = "ApplyModelResult"

\* the last rule called is an ApplyModelResult
ModelRuleCalled ==
  /\ Len(rules) > 0
  /\ Len(calls) = Len(rules)
  /\ rules[Len(rules)].kind = "ApplyModelResult"

\* C23: an ApplyModelResult rule that returns updates exactly the notes it keeps
\* after its filters whose source status is present, to that status with
\* FIRM_REJECT emitted as NMR, every emitted status being CRH, CRNH or NMR; a
\* note with a missing source status keeps the label it had; and the rule fails
\* exactly when a kept note has a source status outside CRH, CRNH, NMR and
\* FIRM_REJECT.
C23_SourceStatusCopied ==
  /\ \A k \in ModelRuns : \A n \in NoteIdSet(noteStats) :
       /\ n \in NoteIdSet(emitted[k].updates) <=>
            (Kept(rules[k], n) /\ SourceStatus(rules[k], n) # NaN)
       /\ n \in NoteIdSet(emitted[k].updates) =>
            /\ EmittedStatus(emitted, k, n) = Propagated(SourceStatus(rules[k], n))
            /\ EmittedStatus(emitted, k, n) \in ClosedStatuses
       /\ SourceStatus(rules[k], n) = NaN =>
            /\ StatusAfter(emitted, k, n) = LabelBefore(k, n)
            /\ (k = Len(emitted) /\ pc = "running") => CurrentLabel(n) = LabelBefore(k, n)
  /\ ModelRuleCalled =>
       (ModelRuleFailed <=>
          \E n \in NoteIdSet(noteStats) :
            /\ Kept(rules[Len(rules)], n)
            /\ SourceStatus(rules[Len(rules)], n)
                 \notin {NaN, currentlyRatedHelpful, currentlyRatedNotHelpful,
                         needsMoreRatings, firmReject})

\* CORE_MODEL ran after the default rule on a note whose core status is
\* FIRM_REJECT and emitted NMR for it
C23_Witness ==
  /\ Len(emitted) = 2
  /\ rules[1].kind = "DefaultRule"
  /\ rules[2].ruleID = "CORE_MODEL"
  /\ StatsOf(1).coreRatingStatus = firmReject
  /\ emitted[2].updates = <<[noteId |-> 1, status |-> needsMoreRatings]>>

\* EXPANSION_MODEL ran on a note without expansion status, which keeps its label
C23_MissingReached ==
  /\ pc = "running"
  /\ Len(emitted) = 2
  /\ rules[2].ruleID = "EXPANSION_MODEL"
  /\ StatsOf(1).expansionRatingStatus = NaN
  /\ emitted[2].updates = <<>>
  /\ CurrentLabel(1) = needsMoreRatings

\* CORE_MODEL failed on a core status that is no status
C23_FailedReached ==
  /\ ModelRuleFailed
  /\ rules[Len(rules)].ruleID = "CORE_MODEL"
  /\ StatsOf(1).coreRatingStatus = "UNRATED"


\* the positions of the RejectLowIntercept rules that have returned
RejectRuns == {k \in 1..Len(emitted) : rules[k].kind = "RejectLowIntercept"}

\* C25 as stated: RejectLowIntercept updates only notes that are NMR when it is
\* called; a note that is CRH or FIRM_REJECT then, with internalNoteIntercept
\* below firmRejectThreshold, gets no update and no attribution from the rule.
C25_OnlyNmrRejected ==
  \A k \in RejectRuns : \A n \in NoteIdSet(noteStats) :
    /\ n \in NoteIdSet(emitted[k].updates) => LabelBefore(k, n) = needsMoreRatings
    /\ (LabelBefore(k, n) \in {currentlyRatedHelpful, firmReject}
          /\ Lt(StatsOf(n).internalNoteIntercept, rules[k].firmRejectThreshold)) =>
         /\ n \notin NoteIdSet(emitted[k].updates)
         /\ Attributed(n, get_name(rules[k].ruleID)) = {}

\* a note that GENERAL_CRH made CRH is firmly rejected by the rule that follows
C25_HelpfulRejectedReached ==
  /\ Completed
  /\ Len(rules) = 3
  /\ rules[2].ruleID = "GENERAL_CRH"
  /\ rules[3].kind = "RejectLowIntercept"
  /\ \E i \in 1..Len(scoredNotes) :
       /\ LabelBefore(3, scoredNotes[i].noteId) = currentlyRatedHelpful
       /\ scoredNotes[i].status = firmReject
       /\ scoredNotes[i].decidedBy = get_name(rules[3].ruleID)


\* the positions of the rules of the four filter classes that have returned
FilterRuns ==
  {k \in 1..Len(emitted) :
     rules[k].kind \in {"FilterTagOutliers", "FilterIncorrect", "FilterLowDiligence",
                        "RejectLowIntercept"}}

\* C24: FilterTagOutliers, FilterIncorrect, FilterLowDiligence and
\* RejectLowIntercept emit no update, and so no attribution, for a note that is
\* CRNH when they are called, whatever its statistics: the note is still CRNH
\* after the rule.
C24_NotHelpfulKept ==
  \A k \in FilterRuns : \A n \in NoteIdSet(noteStats) :
    LabelBefore(k, n) = currentlyRatedNotHelpful =>
      /\ n \notin NoteIdSet(emitted[k].updates)
      /\ ExtrasRows(emitted, k, n) = <<>>
      /\ Attributed(n, get_name(rules[k].ruleID)) = {}
      /\ StatusAfter(emitted, k, n) = currentlyRatedNotHelpful
      /\ (k = Len(emitted) /\ pc = "running") => CurrentLabel(n) = currentlyRatedNotHelpful

\* a note the core model rated CRNH whose statistics are above every filter's
\* threshold went through two filters and is returned CRNH
C24_Witness ==
  /\ Completed
  /\ Len(rules) = 3
  /\ rules[1].ruleID = "CORE_MODEL"
  /\ {2, 3} \subseteq FilterRuns
  /\ StatsOf(1).coreRatingStatus = currentlyRatedNotHelpful
  /\ Gt(StatsOf(1).notHelpfulOther_adjusted, 250)
  /\ Gt(StatsOf(1).lowDiligenceNoteIntercept, 30)
  /\ Ge(StatsOf(1).tf_idf_incorrect_interval, 250)
  /\ Lt(StatsOf(1).internalNoteIntercept, 30)
  /\ emitted[2].updates = <<>>
  /\ emitted[3].updates = <<>>
  /\ scoredNotes[1].status = currentlyRatedNotHelpful

\* each of the four filters updates some note that is not CRNH
C24_FiltersFireReached ==
  /\ Len(emitted) = 3
  /\ rules[1].ruleID = "CORE_MODEL"
  /\ rules[2].kind = "FilterTagOutliers"
  /\ rules[3].kind = "FilterIncorrect"
  /\ LabelBefore(2, 1) = currentlyRatedHelpful
  /\ emitted[2].updates # <<>>
  /\ emitted[3].updates # <<>>


\* the positions of the FilterTagOutliers rules that have returned
TagRuns == {k \in 1..Len(emitted) : rules[k].kind = "FilterTagOutliers"}

\* the positions in notHelpfulTagsTSVOrder of the tags that impact note n: not
\* notHelpfulHardToUnderstand, adjusted total above minAdjustedTotal and adjusted
\* ratio above the tag's threshold
ImpactingTags(rule, n) ==
  {p \in 1..Len(notHelpfulTagsTSVOrder) :
     LET T == notHelpfulTagsTSVOrder[p]
     IN /\ T # "notHelpfulHardToUnderstand"
        /\ Gt(StatsOf(n)[T \o "_adjusted"], rule.minAdjustedTotal)
        /\ Gt(StatsOf(n)[T \o "_adjusted_ratio"],
              rule.tagFilterThresholds[T \o "_adjusted_ratio"])}

\* the names between the commas of a joined string
Joined(tokens) == [i \in 1..((Len(tokens) + 1) \div 2) |-> tokens[2 * i - 1]]

\* the position of a tag in notHelpfulTagsTSVOrder
TagPosition(T) == CHOOSE p \in 1..Len(notHelpfulTagsTSVOrder) : notHelpfulTagsTSVOrder[p] = T

\* C26: FilterTagOutliers updates exactly the labelled notes that are not CRNH
\* and that some tag other than notHelpfulHardToUnderstand impacts (adjusted
\* total strictly above minAdjustedTotal and adjusted ratio strictly above the
\* tag's threshold); the activeFilterTags of such a note is the comma-join of
\* exactly its impacting tags in notHelpfulTagsTSVOrder, each once, and never
\* names notHelpfulHardToUnderstand.
C26_ImpactingTagsJoined ==
  \A k \in TagRuns : \A n \in NoteIdSet(noteStats) :
    /\ n \in NoteIdSet(emitted[k].updates) <=>
         /\ LabelBefore(k, n) \notin {NaN, currentlyRatedNotHelpful}
         /\ ImpactingTags(rules[k], n) # {}
    /\ n \in NoteIdSet(emitted[k].updates) =>
         /\ EmittedStatus(emitted, k, n) = rules[k].status
         /\ Len(ExtrasRows(emitted, k, n)) = 1
         /\ LET tokens == ExtrasRows(emitted, k, n)[1].vals["activeFilterTags"][1]
                tags == Joined(tokens)
            IN /\ Len(tokens) = 2 * Len(tags) - 1
               /\ \A i \in 1..Len(tokens) : (i % 2 = 0) => tokens[i] = ","
               /\ {TagPosition(tags[i]) : i \in 1..Len(tags)} = ImpactingTags(rules[k], n)
               /\ \A i, j \in 1..Len(tags) :
                    i < j => TagPosition(tags[i]) < TagPosition(tags[j])
               /\ \A i \in 1..Len(tags) : tags[i] # "notHelpfulHardToUnderstand"
    /\ n \notin NoteIdSet(emitted[k].updates) => ExtrasRows(emitted, k, n) = <<>>

\* the filter ran after the default rule on a note with every tag above its
\* thresholds: the note is NMR by the filter and its activeFilterTags names the
\* three tags other than notHelpfulHardToUnderstand, in order
C26_Witness ==
  /\ Completed
  /\ Len(rules) = 2
  /\ rules[2].kind = "FilterTagOutliers"
  /\ Len(noteStats) = 1
  /\ Gt(StatsOf(1).notHelpfulHardToUnderstand_adjusted, 250)
  /\ Gt(StatsOf(1).notHelpfulHardToUnderstand_adjusted_ratio, 80)
  /\ emitted[2].updates = <<[noteId |-> 1, status |-> needsMoreRatings]>>
  /\ ExtrasRows(emitted, 2, 1)[1].vals["activeFilterTags"]
       = <<(<<"notHelpfulOther", ",", "notHelpfulIncorrect", ",",
              "notHelpfulArgumentativeOrBiased">>)>>
  /\ scoredNotes[1].decidedBy = get_name("TAG_OUTLIER")

\* a tag whose adjusted total equals minAdjustedTotal impacts no note
C26_AtThresholdReached ==
  /\ Len(emitted) = 2
  /\ rules[1].kind = "DefaultRule"
  /\ rules[2].kind = "FilterTagOutliers"
  /\ Len(noteStats) = 1
  /\ StatsOf(1).notHelpfulOther_adjusted = <<250>>
  /\ StatsOf(1).notHelpfulOther_adjusted_ratio = <<90>>
  /\ emitted[2].updates = <<>>

\* of two notes in a table the filter updates both, each with its own tags
C26_TwoNotesReached ==
  /\ Len(emitted) = 2
  /\ rules[2].kind = "FilterTagOutliers"
  /\ Len(emitted[2].updates) = 2
  /\ ExtrasRows(emitted, 2, 1) # ExtrasRows(emitted, 2, 2)
  /\ ExtrasRows(emitted, 2, 2)[1].vals["activeFilterTags"]
       = <<(<<"notHelpfulArgumentativeOrBiased">>)>>


\* the positions of the ApplyGroupModelResult rules that have returned
GroupRuns == {k \in 1..Len(emitted) : rules[k].kind = "ApplyGroupModelResult"}

\* C27: every update of ApplyGroupModelResult has status CRH and is for a note
\* that is NMR when the rule is called, whose groupRatingStatus is CRH, whose
\* modelingGroup is the rule's groupNumber and which core and expansion do not
\* block; a note that is CRH, CRNH or FIRM_REJECT then gets no update, so the
\* decidedBy of a note an earlier rule made CRH is never a group rule's.
C27_OnlyNmrPromoted ==
  /\ \A k \in GroupRuns : \A n \in NoteIdSet(noteStats) :
       /\ n \in NoteIdSet(emitted[k].updates) =>
            /\ EmittedStatus(emitted, k, n) = currentlyRatedHelpful
            /\ LabelBefore(k, n) = needsMoreRatings
            /\ StatsOf(n).groupRatingStatus = currentlyRatedHelpful
            /\ StatsOf(n).modelingGroup = <<rules[k].groupNumber>>
            /\ ~Blocked(n)
       /\ LabelBefore(k, n) \in {currentlyRatedHelpful, currentlyRatedNotHelpful, firmReject} =>
            /\ n \notin NoteIdSet(emitted[k].updates)
            /\ Attributed(n, get_name(rules[k].ruleID)) = {}
            /\ StatusAfter(emitted, k, n) = LabelBefore(k, n)
  /\ Completed =>
       \A i \in 1..Len(scoredNotes) : \A k \in GroupRuns :
         LabelBefore(k, scoredNotes[i].noteId) = currentlyRatedHelpful =>
           scoredNotes[i].decidedBy # get_name(rules[k].ruleID)

\* a note that GENERAL_CRH made CRH and that the group model of its group rates
\* CRH, with a core intercept in range, is not updated by the group rule and
\* keeps GENERAL_CRH as its decidedBy
C27_Witness ==
  /\ Completed
  /\ Len(rules) = 3
  /\ rules[1].kind = "DefaultRule"
  /\ rules[2].ruleID = "GENERAL_CRH"
  /\ rules[3].ruleID = "GROUP_MODEL_1"
  /\ LabelBefore(3, 1) = currentlyRatedHelpful
  /\ StatsOf(1).groupRatingStatus = currentlyRatedHelpful
  /\ StatsOf(1).modelingGroup = <<1>>
  /\ StatsOf(1).coreNoteIntercept = <<35>>
  /\ ~Blocked(1)
  /\ emitted[3].updates = <<>>
  /\ \E i \in 1..Len(scoredNotes) :
       /\ scoredNotes[i].noteId = 1
       /\ scoredNotes[i].decidedBy = get_name("GENERAL_CRH")

\* the group rule promotes an NMR note
C27_PromotedReached ==
  /\ Completed
  /\ Len(rules) = 2
  /\ rules[2].ruleID = "GROUP_MODEL_1"
  /\ emitted[2].updates = <<[noteId |-> 1, status |-> currentlyRatedHelpful]>>
  /\ \E i \in 1..Len(scoredNotes) :
       /\ scoredNotes[i].noteId = 1
       /\ scoredNotes[i].decidedBy = get_name("GROUP_MODEL_1")


\* note n is a candidate of the k-th rule: NMR when the rule is called, rated
\* CRH by the group model, of the rule's group and not blocked
Candidate(k, n) ==
  /\ LabelBefore(k, n) = needsMoreRatings
  /\ StatsOf(n).groupRatingStatus = currentlyRatedHelpful
  /\ StatsOf(n).modelingGroup = <<rules[k].groupNumber>>
  /\ ~Blocked(n)

\* the intercept is above minSafeguardThreshold and below the CRH threshold
\* when there is one
Safe(intercept, rule, crhThreshold) ==
  /\ intercept[1] > rule.minSafeguardThreshold
  /\ crhThreshold # <<>> => intercept[1] < crhThreshold[1]

\* C28: a candidate note is promoted exactly when its coreNoteIntercept is
\* present and in range, or is missing while its expansionNoteIntercept is
\* present and in range; so a core intercept out of range is not made up for by
\* an expansion intercept in range, and a note with neither is not promoted.
C28_CorePreferred ==
  \A k \in GroupRuns : \A n \in NoteIdSet(noteStats) :
    Candidate(k, n) =>
      LET core == StatsOf(n).coreNoteIntercept
          expansion == StatsOf(n).expansionNoteIntercept
      IN n \in NoteIdSet(emitted[k].updates) <=>
           IF core # <<>> THEN Safe(core, rules[k], rules[k].coreCrhThreshold)
           ELSE IF expansion # <<>>
             THEN Safe(expansion, rules[k], rules[k].expansionCrhThreshold)
           ELSE FALSE

\* a candidate whose core intercept is above coreCrhThreshold and whose
\* expansion intercept is in range is not promoted
C28_Witness ==
  /\ Completed
  /\ Len(rules) = 2
  /\ rules[1].kind = "DefaultRule"
  /\ rules[2].ruleID = "GROUP_MODEL_1"
  /\ Candidate(2, 1)
  /\ StatsOf(1).coreNoteIntercept = <<50>>
  /\ StatsOf(1).expansionNoteIntercept = <<35>>
  /\ emitted[2].updates = <<>>
  /\ \E i \in 1..Len(scoredNotes) :
       scoredNotes[i].noteId = 1 /\ scoredNotes[i].status = needsMoreRatings

\* a candidate with no core intercept is promoted on its expansion intercept
C28_ExpansionReached ==
  /\ Len(emitted) = 2
  /\ rules[2].ruleID = "GROUP_MODEL_1"
  /\ Candidate(2, 1)
  /\ StatsOf(1).coreNoteIntercept = <<>>
  /\ StatsOf(1).expansionNoteIntercept = <<35>>
  /\ 1 \in NoteIdSet(emitted[2].updates)

\* without a CRH threshold a core intercept above CoreCrh is in range
C28_UnboundedReached ==
  /\ Len(emitted) = 2
  /\ rules[2].ruleID = "GROUP_MODEL_2"
  /\ Candidate(2, 1)
  /\ StatsOf(1).coreNoteIntercept = <<50>>
  /\ 1 \in NoteIdSet(emitted[2].updates)

\* a candidate with neither intercept is not promoted
C28_NeitherReached ==
  /\ Len(emitted) = 2
  /\ rules[2].kind = "ApplyGroupModelResult"
  /\ Candidate(2, 1)
  /\ StatsOf(1).coreNoteIntercept = <<>>
  /\ StatsOf(1).expansionNoteIntercept = <<>>
  /\ emitted[2].updates = <<>>


\* note n is selected by the inertia rule at position k of the list: labelled
\* and not CRH when the rule is called, with enough ratings, an intercept at or
\* above the threshold, CRH in the previous run, and a classification that is not
\* SAYS_NOT_MISLEADING
InertiaSelects(k, n) ==
  /\ LabelBefore(k, n) \notin {NaN, currentlyRatedHelpful}
  /\ StatsOf(n).numRatings # <<>>
  /\ StatsOf(n).numRatings[1] >= rules[k].minRatingsNeeded
  /\ StatsOf(n).internalNoteIntercept # <<>>
  /\ StatsOf(n).internalNoteIntercept[1] >= rules[k].threshold
  /\ StatsOf(n).currentLabel = currentlyRatedHelpful
  /\ StatsOf(n).classification # noteSaysTweetIsNotMisleadingKey

\* the last rule called is an AddCRHInertia
InertiaCalled ==
  /\ Len(rules) > 0
  /\ Len(calls) = Len(rules)
  /\ rules[Len(rules)].kind = "AddCRHInertia"

\* the last rule called raised its assertion
LastRuleFailed ==
  /\ pc = "failed"
  /\ error = "RuleAssertion"
  /\ Len(calls) = Len(emitted) + 1

\* C29: an AddCRHInertia rule that returns updates exactly the labelled notes
\* that are not CRH and have numRatings >= minRatingsNeeded, internalNoteIntercept
\* >= threshold, currentLabel CRH from the previous run and a classification other
\* than SAYS_NOT_MISLEADING (a missing one passes); the rule fails exactly when
\* such a note has internalNoteIntercept > expectedMax, and the run then returns
\* nothing.
C29_InertiaSelection ==
  /\ \A k \in 1..Len(emitted) : \A n \in NoteIdSet(noteStats) :
       rules[k].kind = "AddCRHInertia" =>
         /\ n \in NoteIdSet(emitted[k].updates) <=> InertiaSelects(k, n)
         /\ n \in NoteIdSet(emitted[k].updates) =>
              EmittedStatus(emitted, k, n) = rules[k].status
  /\ InertiaCalled =>
       /\ LastRuleFailed <=>
            \E n \in NoteIdSet(noteStats) :
              /\ InertiaSelects(Len(rules), n)
              /\ StatsOf(n).internalNoteIntercept[1] > rules[Len(rules)].expectedMax
       /\ LastRuleFailed => scoredNotes = <<>>

\* the inertia rule ran after the default rule on a note without classification
\* that the previous run rated CRH, with an intercept at the threshold, and made
\* it CRH
C29_Witness ==
  /\ Completed
  /\ Len(rules) = 2
  /\ rules[1].kind = "DefaultRule"
  /\ rules[2].kind = "AddCRHInertia"
  /\ Len(noteStats) = 1
  /\ StatsOf(1).classification = NaN
  /\ StatsOf(1).internalNoteIntercept = <<15>>
  /\ emitted[2].updates = <<[noteId |-> 1, status |-> currentlyRatedHelpful]>>
  /\ scoredNotes[1].status = currentlyRatedHelpful

\* of two selected notes one is above expectedMax: the rule fails and nothing is
\* returned
C29_FailedReached ==
  /\ InertiaCalled
  /\ LastRuleFailed
  /\ Len(noteStats) = 2
  /\ InertiaSelects(Len(rules), 1)
  /\ StatsOf(1).internalNoteIntercept = <<50>>
  /\ StatsOf(2).internalNoteIntercept = <<70>>
  /\ scoredNotes = <<>>

\* a note above expectedMax that is already CRH is not selected: the rule returns
C29_AboveMaxUnselectedReached ==
  /\ Len(emitted) = 3
  /\ rules[2].ruleID = "GENERAL_CRH"
  /\ rules[3].kind = "AddCRHInertia"
  /\ Len(noteStats) = 1
  /\ StatsOf(1).internalNoteIntercept = <<70>>
  /\ LabelBefore(3, 1) = currentlyRatedHelpful
  /\ emitted[3].updates = <<>>


\* C30: a RuleFromFunction rule updates, to its status, exactly the notes on
\* which its predicate holds and, when onlyApplyToNotesThatSayTweetIsMisleading
\* is set, whose classification is not SAYS_NOT_MISLEADING (a missing one
\* passes), whatever their current label; an NMtoCRNH rule updates exactly the
\* notes whose intercept is below its threshold and whose classification is
\* SAYS_NOT_MISLEADING, so never a note without classification.
C30_FunctionAndNotMisleading ==
  \A k \in 1..Len(emitted) : \A n \in NoteIdSet(noteStats) :
    LET row == StatsOf(n)
        updated == n \in NoteIdSet(emitted[k].updates)
    IN /\ rules[k].kind = "RuleFromFunction" =>
            /\ updated <=>
                 /\ row.internalNoteIntercept # <<>>
                 /\ row.internalNoteIntercept[1] > rules[k].threshold
                 /\ rules[k].onlyApplyToNotesThatSayTweetIsMisleading =>
                      row.classification \in {noteSaysTweetIsMisleadingKey, NaN}
            /\ updated => EmittedStatus(emitted, k, n) = rules[k].status
       /\ rules[k].kind = "NMtoCRNH" =>
            /\ updated <=>
                 /\ row.internalNoteIntercept # <<>>
                 /\ row.internalNoteIntercept[1] < rules[k].crnhThresholdNMIntercept
                 /\ row.classification = noteSaysTweetIsNotMisleadingKey
            /\ updated => EmittedStatus(emitted, k, n) = rules[k].status
            /\ row.classification = NaN => ~updated

\* two notes without classification: NM_CRNH leaves alone the one below its
\* threshold, GENERAL_CRH makes the one above its threshold CRH
C30_Witness ==
  /\ Completed
  /\ Len(rules) = 3
  /\ rules[1].kind = "DefaultRule"
  /\ rules[2].kind = "NMtoCRNH"
  /\ rules[3].ruleID = "GENERAL_CRH"
  /\ Len(noteStats) = 2
  /\ StatsOf(1).classification = NaN
  /\ StatsOf(1).internalNoteIntercept = <<20>>
  /\ StatsOf(2).classification = NaN
  /\ StatsOf(2).internalNoteIntercept = <<50>>
  /\ emitted[2].updates = <<>>
  /\ emitted[3].updates = <<[noteId |-> 2, status |-> currentlyRatedHelpful]>>
  /\ scoredNotes[1].status = needsMoreRatings
  /\ scoredNotes[2].status = currentlyRatedHelpful

\* a function rule updates a note that NM_CRNH made CRNH, and one with no label
C30_AnyLabelReached ==
  /\ Len(emitted) = 2
  /\ rules[1].kind = "NMtoCRNH"
  /\ rules[2].ruleID = "ELEVATED_CRH"
  /\ Len(noteStats) = 2
  /\ LabelBefore(2, 1) = currentlyRatedNotHelpful
  /\ LabelBefore(2, 2) = NaN
  /\ NoteIdSet(emitted[2].updates) = {1, 2}

\* GENERAL_CRH skips a note that says "not misleading" and NM_CRNH updates it
C30_NotMisleadingReached ==
  /\ Len(emitted) = 3
  /\ rules[2].ruleID = "GENERAL_CRH"
  /\ rules[3].kind = "NMtoCRNH"
  /\ Len(noteStats) = 1
  /\ StatsOf(1).classification = noteSaysTweetIsNotMisleadingKey
  /\ emitted[2].updates = <<>>
  /\ emitted[3].updates = <<[noteId |-> 1, status |-> currentlyRatedNotHelpful]>>


\* the magnitude of a present number
Magnitude(x) == IF x[1] < 0 THEN 0 - x[1] ELSE x[1]

\* C31: an ApplyTopicModelResult rule updates, to NMR, exactly the notes that
\* are CRH when it is called, whose noteTopic is the rule's topic, whose
\* topicNoteConfident is true and whose topicNoteIntercept is below
\* topicNMRInterceptThreshold or whose topicNoteFactor1 is above
\* topicNMRFactorThreshold in magnitude; a missing intercept or factor satisfies
\* neither comparison.
C31_TopicFlip ==
  \A k \in 1..Len(emitted) : \A n \in NoteIdSet(noteStats) :
    rules[k].kind = "ApplyTopicModelResult" =>
      LET row == StatsOf(n)
          low == /\ row.topicNoteIntercept # <<>>
                 /\ row.topicNoteIntercept[1] < rules[k].topicNMRInterceptThreshold
          wide == /\ row.topicNoteFactor1 # <<>>
                  /\ Magnitude(row.topicNoteFactor1) > rules[k].topicNMRFactorThreshold
      IN /\ n \in NoteIdSet(emitted[k].updates) <=>
              /\ LabelBefore(k, n) = currentlyRatedHelpful
              /\ row.noteTopic = rules[k].topic
              /\ row.topicNoteConfident
              /\ low \/ wide
         /\ n \in NoteIdSet(emitted[k].updates) =>
              EmittedStatus(emitted, k, n) = needsMoreRatings

\* a CRH note of the rule's topic, confident, with an intercept at the threshold
\* and a factor of -0.60, is made NMR by the topic rule
C31_Witness ==
  /\ Completed
  /\ Len(rules) = 2
  /\ rules[1].ruleID = "CORE_MODEL"
  /\ rules[2].kind = "ApplyTopicModelResult"
  /\ LabelBefore(2, 1) = currentlyRatedHelpful
  /\ StatsOf(1).topicNoteConfident
  /\ StatsOf(1).topicNoteIntercept = <<24>>
  /\ StatsOf(1).topicNoteFactor1 = <<-60>>
  /\ emitted[2].updates = <<[noteId |-> 1, status |-> needsMoreRatings]>>
  /\ scoredNotes[1].status = needsMoreRatings
  /\ scoredNotes[1].decidedBy = get_name("TOPIC_MODEL_1")

\* a CRH note of the topic that is not confident, and one with neither intercept
\* nor factor, are left CRH
C31_UnconfidentReached ==
  /\ Len(emitted) = 2
  /\ rules[2].kind = "ApplyTopicModelResult"
  /\ LabelBefore(2, 1) = currentlyRatedHelpful
  /\ StatsOf(1).noteTopic = "UkraineConflict"
  /\ ~StatsOf(1).topicNoteConfident
  /\ StatsOf(1).topicNoteIntercept = <<20>>
  /\ emitted[2].updates = <<>>

C31_MissingReached ==
  /\ Len(emitted) = 2
  /\ rules[2].kind = "ApplyTopicModelResult"
  /\ LabelBefore(2, 1) = currentlyRatedHelpful
  /\ StatsOf(1).noteTopic = "UkraineConflict"
  /\ StatsOf(1).topicNoteConfident
  /\ StatsOf(1).topicNoteIntercept = <<>>
  /\ StatsOf(1).topicNoteFactor1 = <<>>
  /\ emitted[2].updates = <<>>

\* C32: a FilterLargeFactor rule updates, to its status, exactly the notes that
\* are CRH when it is called and whose internalNoteFactor1 is strictly above
\* factorThreshold in magnitude; a note that is NMR, CRNH or FIRM_REJECT then is
\* not updated, whatever its factor.
C32_LargeFactor ==
  \A k \in 1..Len(emitted) : \A n \in NoteIdSet(noteStats) :
    rules[k].kind = "FilterLargeFactor" =>
      /\ n \in NoteIdSet(emitted[k].updates) <=>
           /\ LabelBefore(k, n) = currentlyRatedHelpful
           /\ StatsOf(n).internalNoteFactor1 # <<>>
           /\ Magnitude(StatsOf(n).internalNoteFactor1) > rules[k].factorThreshold
      /\ n \in NoteIdSet(emitted[k].updates) =>
           EmittedStatus(emitted, k, n) = rules[k].status
      /\ LabelBefore(k, n) \in {needsMoreRatings, currentlyRatedNotHelpful, firmReject} =>
           /\ n \notin NoteIdSet(emitted[k].updates)
           /\ Attributed(n, get_name(rules[k].ruleID)) = {}

\* a CRH note with a factor of -0.60 is made NMR by the factor filter
C32_Witness ==
  /\ Completed
  /\ Len(rules) = 2
  /\ rules[1].ruleID = "CORE_MODEL"
  /\ rules[2].kind = "FilterLargeFactor"
  /\ LabelBefore(2, 1) = currentlyRatedHelpful
  /\ StatsOf(1).internalNoteFactor1 = <<-60>>
  /\ emitted[2].updates = <<[noteId |-> 1, status |-> needsMoreRatings]>>
  /\ scoredNotes[1].decidedBy = get_name("LARGE_FACTOR")

\* a CRH note with a factor at the threshold, and a FIRM_REJECT note with a
\* factor beyond it, are not updated
C32_AtThresholdReached ==
  /\ Len(emitted) = 2
  /\ rules[2].kind = "FilterLargeFactor"
  /\ LabelBefore(2, 1) = currentlyRatedHelpful
  /\ StatsOf(1).internalNoteFactor1 = <<50>>
  /\ emitted[2].updates = <<>>

C32_RejectedReached ==
  /\ Len(emitted) = 3
  /\ rules[3].kind = "FilterLargeFactor"
  /\ LabelBefore(3, 1) = firmReject
  /\ StatsOf(1).internalNoteFactor1 = <<60>>
  /\ emitted[3].updates = <<>>


\* the number of top tags the row of note n has in noteStats after the rules run
\* so far
TopTagsOf(n) ==
  Cardinality({col \in {"firstTag", "secondTag"} : StatsOf(n)[col] # NaN})

\* C33: an InsufficientExplanation rule updates, to its status, exactly the
\* notes that are CRH or CRNH when it is called and that have fewer than
\* minTagsNeededForStatus non-missing values in firstTag and secondTag once the
\* rule has set the top tags; a note that is NMR or FIRM_REJECT then is not
\* updated.
C33_InsufficientExplanation ==
  \A k \in 1..Len(emitted) : \A n \in NoteIdSet(noteStats) :
    rules[k].kind = "InsufficientExplanation" =>
      /\ n \in NoteIdSet(emitted[k].updates) <=>
           /\ LabelBefore(k, n) \in {currentlyRatedHelpful, currentlyRatedNotHelpful}
           /\ TopTagsOf(n) < rules[k].minTagsNeededForStatus
      /\ n \in NoteIdSet(emitted[k].updates) =>
           EmittedStatus(emitted, k, n) = rules[k].status
      /\ LabelBefore(k, n) \in {needsMoreRatings, firmReject} =>
           /\ n \notin NoteIdSet(emitted[k].updates)
           /\ Attributed(n, get_name(rules[k].ruleID)) = {}

\* of two CRH notes the rule asking for two tags makes NMR the one with a single
\* top tag and leaves the one with two
C33_Witness ==
  /\ Completed
  /\ Len(rules) = 2
  /\ rules[1].ruleID = "GENERAL_CRH"
  /\ rules[2].kind = "InsufficientExplanation"
  /\ rules[2].minTagsNeededForStatus = 2
  /\ Len(noteStats) = 2
  /\ LabelBefore(2, 1) = currentlyRatedHelpful
  /\ LabelBefore(2, 2) = currentlyRatedHelpful
  /\ TopTagsOf(1) = 1
  /\ TopTagsOf(2) = 2
  /\ emitted[2].updates = <<[noteId |-> 1, status |-> needsMoreRatings]>>
  /\ scoredNotes[1].status = needsMoreRatings
  /\ scoredNotes[2].status = currentlyRatedHelpful

\* a FIRM_REJECT note without top tags is not updated
C33_RejectedReached ==
  /\ Len(emitted) = 3
  /\ rules[3].kind = "InsufficientExplanation"
  /\ LabelBefore(3, 1) = firmReject
  /\ TopTagsOf(1) = 0
  /\ emitted[3].updates = <<>>

\* a CRNH note with one top tag satisfies the rule asking for one
C33_OneTagReached ==
  /\ Len(emitted) = 2
  /\ rules[2].kind = "InsufficientExplanation"
  /\ rules[2].minTagsNeededForStatus = 1
  /\ Len(noteStats) = 1
  /\ LabelBefore(2, 1) \in {currentlyRatedHelpful, currentlyRatedNotHelpful}
  /\ TopTagsOf(1) = 1
  /\ emitted[2].updates = <<>>


\* the statistic is present and at least the threshold
AtLeast(x, threshold) == x # <<>> /\ x[1] >= threshold

\* C34: a FilterIncorrect rule updates, to its status, exactly the labelled
\* notes that are not CRNH and have notHelpfulIncorrect_interval >=
\* tagThreshold, num_voters_interval >= voteThreshold and
\* tf_idf_incorrect_interval >= weightedTotalVotes; a missing statistic fails its
\* comparison.
C34_IncorrectFilter ==
  \A k \in 1..Len(emitted) : \A n \in NoteIdSet(noteStats) :
    rules[k].kind = "FilterIncorrect" =>
      /\ n \in NoteIdSet(emitted[k].updates) <=>
           /\ LabelBefore(k, n) \notin {NaN, currentlyRatedNotHelpful}
           /\ AtLeast(StatsOf(n).notHelpfulIncorrect_interval, rules[k].tagThreshold)
           /\ AtLeast(StatsOf(n).num_voters_interval, rules[k].voteThreshold)
           /\ AtLeast(StatsOf(n).tf_idf_incorrect_interval, rules[k].weightedTotalVotes)
      /\ n \in NoteIdSet(emitted[k].updates) =>
           EmittedStatus(emitted, k, n) = rules[k].status

\* a CRH note with each statistic equal to its threshold is made NMR by the
\* filter
C34_Witness ==
  /\ Completed
  /\ Len(rules) = 2
  /\ rules[1].ruleID = "CORE_MODEL"
  /\ rules[2].kind = "FilterIncorrect"
  /\ Len(noteStats) = 1
  /\ LabelBefore(2, 1) = currentlyRatedHelpful
  /\ StatsOf(1).notHelpfulIncorrect_interval = <<TagThreshold>>
  /\ StatsOf(1).num_voters_interval = <<VoteThreshold>>
  /\ StatsOf(1).tf_idf_incorrect_interval = <<WeightedTotalVotes>>
  /\ emitted[2].updates = <<[noteId |-> 1, status |-> needsMoreRatings]>>
  /\ scoredNotes[1].status = needsMoreRatings

\* a labelled note with two statistics at their thresholds and the third missing
\* is not updated
C34_MissingReached ==
  /\ Len(emitted) = 2
  /\ rules[1].kind = "DefaultRule"
  /\ rules[2].kind = "FilterIncorrect"
  /\ Len(noteStats) = 1
  /\ StatsOf(1).notHelpfulIncorrect_interval = <<TagThreshold>>
  /\ StatsOf(1).num_voters_interval = <<>>
  /\ StatsOf(1).tf_idf_incorrect_interval = <<WeightedTotalVotes>>
  /\ emitted[2].updates = <<>>

\* of two CRH notes the filter updates the one with enough voters
C34_TwoNotesReached ==
  /\ Len(emitted) = 2
  /\ rules[2].kind = "FilterIncorrect"
  /\ Len(noteStats) = 2
  /\ StatsOf(1).num_voters_interval = <<VoteThreshold - 1>>
  /\ emitted[2].updates = <<[noteId |-> 2, status |-> needsMoreRatings]>>


\* C35: after every iteration of the loop the label accumulator has at most one
\* row per noteId, and the noteIds that have a label are the noteIds that have
\* at least one attribution row.
C35_OneLabelPerAttributedNote ==
  /\ UniqueNoteIds(noteLabels)
  /\ NoteIdSet(noteLabels) = NoteIdSet(noteRules)

\* [CORE_MODEL, INITIAL_NMR] on two notes of which the core model rates one:
\* after the first rule one note has a label and an attribution row, after the
\* second both have one label, and the rated note has two attribution rows
C35_Witness ==
  /\ Len(emitted) = 2
  /\ rules[1].kind = "ApplyModelResult"
  /\ rules[2].kind = "DefaultRule"
  /\ NoteIdSet(noteStats) = {1, 2}
  /\ Cardinality(NoteIdSet(emitted[1].updates)) = 1
  /\ Len(noteLabels) = 2
  /\ Len(noteRules) = 3

\* a table whose two rows share a noteId: two updates and two attribution rows
\* for the note, one label
C35_RepeatedReached ==
  /\ Len(emitted) = 1
  /\ Len(noteStats) = 2
  /\ noteStats[1].noteId = noteStats[2].noteId
  /\ Len(emitted[1].updates) = 2
  /\ Len(noteRules) = 2
  /\ Len(noteLabels) = 1

\* some notes have neither a label nor an attribution row after the first rule
C35_PartialReached ==
  /\ Len(emitted) = 1
  /\ pc = "running"
  /\ NoteIdSet(noteLabels) # {}
  /\ NoteIdSet(noteLabels) # NoteIdSet(noteStats)


\* s is an initial segment of t
IsPrefix(s, t) == Len(s) <= Len(t) /\ SubSeq(t, 1, Len(s)) = s

\* the rule names attributed to note n, in the order of the attribution rows
ActiveRules(attribution, n) ==
  LET own == SelectSeq(attribution, LAMBDA r : r.noteId = n)
  IN [i \in 1..Len(own) |-> own[i].rule]

\* no rule name occurs twice among the names attributed to note n
NamedOnce(attribution, n) ==
  LET names == ActiveRules(attribution, n)
  IN \A i, j \in 1..Len(names) : names[i] = names[j] => i = j

\* an iteration of the loop only appends to the attribution rows
AppendOnly ==
  pc = "running" =>
    /\ IsPrefix(noteRules, noteRules')
    /\ \A n \in NoteIdSet(noteStats) \cup NoteIdSet(noteRules') :
         IsPrefix(ActiveRules(noteRules, n), ActiveRules(noteRules', n))

\* C36: attribution is append-only: every step of the run leaves the attribution
\* rows it found as an initial segment of the new ones, so every note's list of
\* rule names after rule k is a prefix of its list after rule k+1; and when the
\* input table has unique noteIds no rule name occurs twice in a note's list.
C36_AttributionAppendOnly ==
  /\ [][AppendOnly]_vars
  /\ [](UniqueNoteIds(noteStats) => \A n \in NoteIdSet(noteRules) : NamedOnce(noteRules, n))

\* three rules have each labelled note 1 of a table with unique noteIds: its list
\* has their three names in list order
C36_Witness ==
  /\ Len(emitted) = 3
  /\ UniqueNoteIds(noteStats)
  /\ \A k \in 1..3 : 1 \in NoteIdSet(emitted[k].updates)
  /\ ActiveRules(noteRules, 1) = [k \in 1..3 |-> get_name(rules[k].ruleID)]

\* on a table whose two rows share a noteId one rule is named twice in the
\* note's list
C36_RepeatedReached ==
  /\ Len(emitted) = 1
  /\ ~UniqueNoteIds(noteStats)
  /\ \E n \in NoteIdSet(noteRules) : ~NamedOnce(noteRules, n)


\* the rule classes whose score_notes selects its notes from currentLabels
LabelReaders ==
  {"FilterTagOutliers", "FilterIncorrect", "FilterLowDiligence", "FilterLargeFactor",
   "RejectLowIntercept", "ApplyGroupModelResult", "ApplyTopicModelResult",
   "InsufficientExplanation", "AddCRHInertia", "NmrDueToMinStableCrhTime",
   "ScoringDriftGuard"}

\* the rule classes whose score_notes selects its notes from noteStats alone
FirstLabellers == {"DefaultRule", "RuleFromFunction", "ApplyModelResult", "NMtoCRNH"}

\* the k-th rule of the list is of the given class and has updated a note
Emits(k, kind) == rules[k].kind = kind /\ emitted[k].updates # <<>>

\* C37: a rule of a class that reads the current labels updates only notes that
\* an earlier rule has labelled; a note's first label comes from a DefaultRule,
\* RuleFromFunction, ApplyModelResult or NMtoCRNH rule.
C37_FirstLabel ==
  \A k \in 1..Len(emitted) : \A n \in NoteIdSet(emitted[k].updates) :
    /\ rules[k].kind \in LabelReaders \cup FirstLabellers
    /\ rules[k].kind \in LabelReaders => LabelBefore(k, n) # NaN
    /\ LabelBefore(k, n) = NaN => rules[k].kind \in FirstLabellers

\* [CORE_MODEL, LOW_INTERCEPT] on two notes with the same intercept, of which the
\* core model has labelled the first: the rejecting rule updates the first alone
C37_Witness ==
  /\ Len(emitted) = 2
  /\ rules[1].kind = "ApplyModelResult"
  /\ rules[2].kind = "RejectLowIntercept"
  /\ Len(noteStats) = 2
  /\ noteStats[1].internalNoteIntercept = noteStats[2].internalNoteIntercept
  /\ NoteIdSet(emitted[1].updates) = {1}
  /\ NoteIdSet(emitted[2].updates) = {1}
  /\ LabelBefore(2, 2) = NaN

\* NMtoCRNH as first rule gives a note its first label
C37_FirstLabelReached ==
  /\ Len(emitted) >= 1
  /\ rules[1].kind = "NMtoCRNH"
  /\ emitted[1].updates # <<>>

\* after INITIAL_NMR the drift guard and the inertia rule each update a note
C37_ReadersEmitReached ==
  /\ Len(emitted) = 3
  /\ rules[1].kind = "DefaultRule"
  /\ Emits(2, "ScoringDriftGuard")
  /\ Emits(3, "AddCRHInertia")


\* how many of the three boolean columns of a scored row are true
TrueColumns(row) ==
  Cardinality({b \in {"currentlyRatedHelpfulBool", "currentlyRatedNotHelpfulBool",
                      "awaitingMoreRatingsBool"} : row[b]})

\* C38 as stated: every returned row has exactly one of currentlyRatedHelpfulBool,
\* currentlyRatedNotHelpfulBool and awaitingMoreRatingsBool true.
C38_ExactlyOneBoolean ==
  Completed => \A i \in 1..Len(scoredNotes) : TrueColumns(scoredNotes[i]) = 1

\* C38 (amended): every returned row has at most one of the three columns true;
\* exactly one when its status is CRH, CRNH or NMR, and none when its status is
\* FIRM_REJECT, which the driver returns when the note's last update came from
\* a rule such as RejectLowIntercept.
C38_OneBooleanUnlessFirmReject ==
  Completed =>
    \A i \in 1..Len(scoredNotes) :
      /\ scoredNotes[i].status \in ClosedStatuses \cup {firmReject}
      /\ TrueColumns(scoredNotes[i]) = (IF scoredNotes[i].status = firmReject THEN 0 ELSE 1)

\* [INITIAL_NMR, LOW_INTERCEPT] returned on two notes: the one with the low
\* intercept is FIRM_REJECT with no column true, the other NMR with one
C38_Witness ==
  /\ Completed
  /\ Len(rules) = 2
  /\ rules[2].kind = "RejectLowIntercept"
  /\ \E i, j \in 1..Len(scoredNotes) :
       /\ scoredNotes[i].status = firmReject
       /\ TrueColumns(scoredNotes[i]) = 0
       /\ scoredNotes[j].status = needsMoreRatings
       /\ TrueColumns(scoredNotes[j]) = 1


\* the columns other than noteId of the extras the k-th rule returned
ExtrasColumns(k) == IF emitted[k].extras = None THEN {} ELSE emitted[k].extras.columns

\* the positions of the rules whose extras have the column
Contributors(column) == {k \in 1..Len(emitted) : column \in ExtrasColumns(k)}

\* C39: when two rules of a run have returned extras that share a column other
\* than noteId, the run has failed at the second of them, on the assertion that
\* extras and updates cover the same notes or, that passed, on the assertion on
\* shared columns; in a run that completes every extras column has one
\* contributing rule, and a scored row has in it the value of its note's extras
\* row, or a missing value if the rule returned no extras row for the note.
C39_ColumnClash ==
  /\ \A j, k \in 1..Len(emitted) :
       (j < k /\ ExtrasColumns(j) \cap ExtrasColumns(k) # {}) =>
         /\ k = Len(emitted)
         /\ pc = "failed"
         /\ scoredNotes = <<>>
         /\ error = (IF ColumnsMatchUpdates(rules[k], emitted[k].updates, emitted[k].extras)
                       THEN "ColumnClash" ELSE "ExtrasMismatch")
  /\ (pc = "failed" /\ error = "ColumnClash") =>
       \E j \in 1..(Len(emitted) - 1) : ExtrasColumns(j) \cap ExtrasColumns(Len(emitted)) # {}
  /\ Completed =>
       /\ \A k \in 1..Len(emitted) : \A column \in ExtrasColumns(k) : Contributors(column) = {k}
       /\ \A i \in 1..Len(scoredNotes) :
            /\ DOMAIN scoredNotes[i].vals = UNION {ExtrasColumns(k) : k \in 1..Len(emitted)}
            /\ \A k \in 1..Len(emitted) : \A column \in ExtrasColumns(k) :
                 LET own == ExtrasRows(emitted, k, scoredNotes[i].noteId)
                 IN scoredNotes[i].vals[column]
                      = (IF own = <<>> THEN <<>> ELSE own[1].vals[column])

\* a returned run in which two rules contributed one column each, and each of
\* two notes has an extras row of one rule and a missing value in the column of
\* the other
C39_Witness ==
  /\ Completed
  /\ Len(scoredNotes) = 2
  /\ \E j, k \in 1..Len(emitted) :
       /\ ExtrasColumns(j) = {updatedTimestampMillisOfNmrDueToMinStableCrhTimeKey}
       /\ ExtrasColumns(k) = {unlockedRatingStatusKey}
       /\ ExtrasRows(emitted, j, 1) = <<>>
       /\ ExtrasRows(emitted, k, 1) # <<>>
       /\ ExtrasRows(emitted, j, 2) # <<>>
       /\ ExtrasRows(emitted, k, 2) = <<>>
  /\ scoredNotes[1].vals[updatedTimestampMillisOfNmrDueToMinStableCrhTimeKey] = <<>>
  /\ scoredNotes[1].vals[unlockedRatingStatusKey] # <<>>
  /\ scoredNotes[2].vals[updatedTimestampMillisOfNmrDueToMinStableCrhTimeKey] # <<>>
  /\ scoredNotes[2].vals[unlockedRatingStatusKey] = <<>>

\* the second of two rules that return the timestamp column fails the run on
\* the assertion on shared columns
C39_ClashReached ==
  /\ pc = "failed"
  /\ error = "ColumnClash"
  /\ Len(emitted) = 3
  /\ ExtrasColumns(2) = ExtrasColumns(3)
  /\ noteColumns.columns = ExtrasColumns(2)

\* the second of the two rules returns extras without rows and no updates, and
\* the run fails on the shared column all the same
C39_EmptyClashReached ==
  /\ pc = "failed"
  /\ error = "ColumnClash"
  /\ Len(noteStats) > 0
  /\ emitted[Len(emitted)].extras.rows = <<>>

====
